---- MODULE Spec2Model ----
(***************************************************************************)
(* Consent reconciliation of Data-Consent-Phox: the customer / session /  *)
(* event store, the orders_create, customers_update and customers_email_   *)
(* marketing_consent_update webhook handlers, the checkout-toggle endpoint *)
(* and the email-provider synchronizer (syncKlaviyoForCustomer).          *)
(*                                                                         *)
(* Every handler is a process that advances one await at a time, so the   *)
(* store is read and written in the order the code does it.               *)
(***************************************************************************)
EXTENDS Integers, Sequences, FiniteSets, TLC

\* ------------------------------------------------------------------ bounds
MaxTime == 3            \* the clock runs over 0..MaxTime (minutes)
MaxEvents == 2          \* rows of the ConsentEvent table
MaxRuns == 3            \* webhook deliveries handled

\* --------------------------------------------------------------- constants
FenceMinutes == 2       \* setConsentWebhookSuppression(..., 2)

NULL == "null"
NoTime == -1            \* a null DateTime column
NoRow == 0              \* a null customer id

Procs == {"p1", "p2"}
Emails == {"a@x"}
Sids == {"101"}
SessionIds == {"s1"}
OrderIds == {"o1"}

States == {"SUBSCRIBED", "UNSUBSCRIBED", "NOT_SUBSCRIBED"}
Modes == {"OPT_IN", "OPT_OUT", "NO_CHECKBOX"}
RawStates == {"subscribed", "unsubscribed", "not_subscribed", "pending", NULL}
Times == 0..MaxTime

VARIABLES
  now,          \* wall clock, Date.now() in minutes
  customers,    \* Customer table: sequence of rows, the id is the index
  sessions,     \* ConsentSession table: session id -> row
  events,       \* ConsentEvent table, in insertion order
  settings,     \* KlaviyoSettings row of the shop
  sync,         \* one syncKlaviyoForCustomer call: arguments, answers, result
  run,          \* per process: the handler run in progress and its locals
  runs,         \* number of webhook deliveries so far
  policy,       \* one policy resolution: the matrix, the lookup, the answers
  shopify,      \* the commerce platform's side of customer 101, where followed
  widget        \* the checkout extension's state in the buyer's browser

vars ==
  <<now, customers, sessions, events, settings, sync, run, runs, policy, shopify,
    widget>>
ext == <<settings, sync, policy, shopify, widget>>

\* ------------------------------------------------------------ pure helpers

\* webhooks.app.orders_create.jsx: toStateFromSubscribe
toStateFromSubscribe(subscribe) ==
  IF subscribe = "true" THEN "SUBSCRIBED"
  ELSE IF subscribe = "false" THEN "UNSUBSCRIBED"
  ELSE "NOT_SUBSCRIBED"

\* webhooks.app.customers_email_marketing_consent_update.jsx: toState
toState(raw) ==
  IF raw = "subscribed" THEN "SUBSCRIBED"
  ELSE IF raw = "unsubscribed" THEN "UNSUBSCRIBED"
  ELSE IF raw = "not_subscribed" THEN "NOT_SUBSCRIBED"
  ELSE "NOT_SUBSCRIBED"

RowIds == 1..Len(customers)

\* prisma.customer.findFirst({ where: { shop, shopifyCustomerId } })
RowsBySid(sid) == {i \in RowIds : sid # NULL /\ customers[i].sid = sid}
\* prisma.customer.findFirst / findUnique({ where: { shop, email } })
RowsByEmail(email) == {i \in RowIds : email # NULL /\ customers[i].email = email}

NoSession ==
  [mode |-> NULL, orderId |-> NULL, customerId |-> NoRow, subscribed |-> NULL,
   checkoutToken |-> NULL, createdAt |-> NoTime, updatedAt |-> NoTime]
SessionExists(s) == s # NULL /\ sessions[s].mode # NULL

IdleRun ==
  [pc |-> "idle", kind |-> NULL, sessionId |-> NULL, orderId |-> NULL,
   email |-> NULL, sid |-> NULL, state |-> NULL, ts |-> NoTime, at |-> NoTime,
   subscribe |-> NULL, mode |-> NULL, existing |-> NoRow, prevState |-> NULL,
   row |-> NoRow, push |-> NULL, outcome |-> NULL, after |-> NULL, calls |-> <<>>,
   raw |-> NULL, accepts |-> NULL, synced |-> NULL, patch |-> NULL,
   dryRun |-> NULL, pushKlaviyo |-> NULL, token |-> NULL, del |-> {}]

OffRun == [IdleRun EXCEPT !.pc = "off"]

Busy(p) == run[p].pc \notin {"idle", "done", "off"}
InFlight == Cardinality({p \in Procs : Busy(p)})
CanStart(p) == run[p].pc \in {"idle", "done"} /\ runs < MaxRuns
\* every handler appends at most one event: keep room for the runs in flight
EventRoom == Len(events) + InFlight < MaxEvents

Log(p, c) == Append(run[p].calls, c)
Ops(p) == {run[p].calls[i].op : i \in 1..Len(run[p].calls)}

\* --------------------------------------------------------------- the clock
\* a handler run is short against the clock's unit: time passes between runs
Tick ==
  /\ now < MaxTime
  /\ InFlight = 0
  /\ now' = now + 1
  /\ UNCHANGED <<customers, sessions, events, ext, run, runs>>

\* ---------------------------------------------- email-provider synchronizer
ProfileStatuses == {"never_subscribed", "subscribed", "unsubscribed", "suppressed"}
Lists == {"L1", "L2"}
Methods == {"DOI", "SOI", NULL}

SettingsSet ==
  [hasKey : BOOLEAN, single : Lists \cup {NULL}, double : Lists \cup {NULL}]

\* what the provider answers during one syncKlaviyoForCustomer call
SyncEnvs ==
  [status : ProfileStatuses \cup {"absent"},  \* the profile's status at the provider
   awareOk : BOOLEAN,                         \* lookup with additional-fields succeeds
   liteOk : BOOLEAN,                          \* the lighter lookup succeeds
   createOk : BOOLEAN,                        \* POST /profiles succeeds
   method : Methods,                          \* resolveEmailMethodFromMatrix
   failList : Lists \cup {NULL}]              \* the list whose bulk job fails

Evidences == [explicitToggle : BOOLEAN, doiConfirmed : BOOLEAN]
NoEvidence == [explicitToggle |-> FALSE, doiConfirmed |-> FALSE]

Call(op, arg) == [op |-> op, arg |-> arg]

\* sync-to-klaviyo.server.js: getProfileByEmail
getProfileByEmail(env) ==
  IF env.awareOk
    THEN [threw |-> FALSE, found |-> env.status # "absent",
          status |-> IF env.status = "absent" THEN NULL ELSE env.status]
  ELSE IF env.liteOk
    THEN [threw |-> FALSE, found |-> env.status # "absent", status |-> NULL]
  ELSE [threw |-> TRUE, found |-> FALSE, status |-> NULL]

\* the target list without the fallback to the other configured list
TargetListNoFallback(method, sessionMode, st) ==
  IF method = "DOI" THEN st.double
  ELSE IF method = "SOI" THEN st.single
  ELSE IF sessionMode = "OPT_IN" THEN st.double ELSE st.single

\* sync-to-klaviyo.server.js: target list of a subscribe
TargetList(method, sessionMode, st) ==
  LET dOrS == IF st.double # NULL THEN st.double ELSE st.single
      sOrD == IF st.single # NULL THEN st.single ELSE st.double
  IN  IF method = "DOI" THEN dOrS
      ELSE IF method = "SOI" THEN sOrD
      ELSE IF sessionMode = "OPT_IN" THEN dOrS ELSE sOrD

\* [...new Set([singleList, doubleList].filter(Boolean))]
AllLists(st) ==
  (IF st.single # NULL THEN <<st.single>> ELSE <<>>) \o
  (IF st.double # NULL /\ st.double # st.single THEN <<st.double>> ELSE <<>>)

\* the decision without the suppressed-profile check
ListOpsNoGuard(subscribed, currentStatus, explicitConsent, target, st) ==
  IF subscribed = "true"
    THEN IF currentStatus = "subscribed" THEN <<>>
         ELSE <<Call("subscribe", target)>>
    ELSE [i \in 1..Len(AllLists(st)) |-> Call("unsubscribe", AllLists(st)[i])]

\* the decision without the already-subscribed check
ListOpsNoSkip(subscribed, currentStatus, explicitConsent, target, st) ==
  IF subscribed = "true"
    THEN IF currentStatus = "suppressed" /\ ~explicitConsent THEN <<>>
         ELSE <<Call("subscribe", target)>>
    ELSE [i \in 1..Len(AllLists(st)) |-> Call("unsubscribe", AllLists(st)[i])]

\* the subscribe / unsubscribe decision at the end of syncKlaviyoForCustomer
ListOps(subscribed, currentStatus, explicitConsent, target, st) ==
  IF subscribed = "true"
    THEN IF currentStatus = "subscribed" THEN <<>>
         ELSE IF currentStatus = "suppressed" /\ ~explicitConsent THEN <<>>
         ELSE <<Call("subscribe", target)>>
    ELSE [i \in 1..Len(AllLists(st)) |-> Call("unsubscribe", AllLists(st)[i])]

\* the list jobs of a sync whose ops carry the list as argument
FailedAt(ops, failList) == {i \in 1..Len(ops) : ops[i].arg = failList}

\* the list jobs without a try / catch of their own: the first failure ends
\* the loop (the outer catch logs it)
RunListOpsAbort(ops, failList) ==
  LET bad == FailedAt(ops, failList)
      first == CHOOSE i \in bad : \A j \in bad : i <= j
  IN  IF bad = {} THEN [calls |-> ops, failed |-> {}]
      ELSE [calls |-> SubSeq(ops, 1, first), failed |-> {failList}]

\* lines 342-378: the list jobs are issued in order; a subscribe that fails
\* is caught by the outer catch, an unsubscribe that fails by the catch of
\* its own iteration, so every job is attempted
RunListOps(ops, failList) ==
  [calls |-> ops,
   failed |-> IF FailedAt(ops, failList) = {} THEN {} ELSE {failList}]

\* sync-to-klaviyo.server.js: syncKlaviyoForCustomer; the result is the
\* provider calls that change something and whether the call threw
syncKlaviyoForCustomer(email, subscribed, sessionMode, evidence, st, env) ==
  LET target == TargetList(env.method, sessionMode, st)
      prof == getProfileByEmail(env)
      currentStatus == IF prof.status # NULL THEN prof.status ELSE "never_subscribed"
      explicitConsent == evidence.explicitToggle \/ evidence.doiConfirmed
      ensure == IF prof.found THEN <<>> ELSE <<Call("createProfile", email)>>
      traits == <<Call("patchTraits", email)>>
      none == [calls |-> <<>>, failed |-> {}, threw |-> FALSE]
      jobs == RunListOps(ListOps(subscribed, currentStatus, explicitConsent, target, st),
                         env.failList)
  IN  IF email = NULL \/ ~st.hasKey THEN none
      ELSE IF subscribed \notin {"true", "false"} THEN none
      ELSE IF subscribed = "true" /\ target = NULL THEN none
      ELSE IF prof.threw THEN [calls |-> <<>>, failed |-> {}, threw |-> TRUE]
      ELSE IF ~prof.found /\ ~env.createOk
        THEN [calls |-> ensure, failed |-> {}, threw |-> TRUE]
      ELSE [calls |-> ensure \o traits \o jobs.calls, failed |-> jobs.failed,
            threw |-> FALSE]

NoSync ==
  [pc |-> "off", email |-> NULL, subscribed |-> NULL, sessionMode |-> NULL,
   evidence |-> NoEvidence,
   env |-> [status |-> "absent", awareOk |-> TRUE, liteOk |-> TRUE,
            createOk |-> TRUE, method |-> NULL, failList |-> NULL],
   calls |-> <<>>, failed |-> {}, threw |-> FALSE]

\* one call of syncKlaviyoForCustomer with the arguments and answers drawn
SyncCall ==
  /\ sync.pc = "call"
  /\ LET res == syncKlaviyoForCustomer(sync.email, sync.subscribed, sync.sessionMode,
                                       sync.evidence, settings, sync.env)
     IN  sync' = [sync EXCEPT !.pc = "returned", !.calls = res.calls,
                              !.failed = res.failed, !.threw = res.threw]
  /\ UNCHANGED <<now, customers, sessions, events, settings, run, runs, policy,
                 shopify, widget>>

\* ------------------------------------------- policy resolution (part_000)
MaxRows == 2            \* rows of the consent matrix

Regions == {[code |-> "GB", name |-> "United Kingdom"],
            [code |-> "DE", name |-> "Germany"]}
Segments == {"single", "repeat"}
Payloads == {[widget |-> "OPT_IN", email_method |-> "DOI"],
             [widget |-> "OPT_OUT", email_method |-> "SOI"]}

\* rows of app/data/consent_matrix.json; customer_type may be left out
MatrixRows ==
  {[country_code |-> g.code, country |-> g.name, customer_type |-> t,
    widget |-> w.widget, email_method |-> w.email_method] :
     g \in Regions, t \in Segments \cup {NULL}, w \in Payloads}

Tables == UNION {[1..n -> MatrixRows] : n \in 0..MaxRows}

\* String(x).toUpperCase() / toLowerCase() on the codes and names in use
Upper(x) ==
  IF x = "gb" THEN "GB" ELSE IF x = "de" THEN "DE" ELSE IF x = "fr" THEN "FR" ELSE x
Lower(x) ==
  IF x = "United Kingdom" THEN "united kingdom"
  ELSE IF x = "Germany" THEN "germany"
  ELSE IF x = "France" THEN "france"
  ELSE IF x = "A@X" THEN "a@x"
  ELSE x

\* loadMatrix lines 69-72: the keys of a row; no customer_type means "single"
RowType(r) == IF r.customer_type = NULL THEN "single" ELSE r.customer_type
CodeKey(r) == <<Upper(r.country_code), RowType(r)>>
NameKey(r) == <<Lower(r.country), RowType(r)>>

\* loadMatrix lines 74-79
RuleOf(r) ==
  [widget |-> Upper(r.widget), emailMethod |-> r.email_method,
   country |-> r.country, countryCode |-> r.country_code]

\* Map.set in file order: the last row with a key is the one kept; the
\* lookups answer with the row's index, 0 when the key is absent
LastRow(hits) == CHOOSE i \in hits : \A j \in hits : j <= i
ByCode(table, key) ==
  LET hits == {i \in 1..Len(table) : CodeKey(table[i]) = key}
  IN  IF hits = {} THEN 0 ELSE LastRow(hits)
ByName(table, key) ==
  LET hits == {i \in 1..Len(table) : NameKey(table[i]) = key}
  IN  IF hits = {} THEN 0 ELSE LastRow(hits)

\* pickRule lines 107-112
DefaultRule ==
  [widget |-> "OPT_OUT", emailMethod |-> "SOI",
   country |-> "United Kingdom", countryCode |-> "GB"]

\* String(customerType).toLowerCase(), "single" when the argument is left out
TypeKey(customerType) ==
  IF customerType = "undefined" THEN "single"
  ELSE IF customerType = NULL THEN "null"
  ELSE customerType

\* the lookup with the country name tried before the code
pickRuleNameFirst(table, code, country, customerType) ==
  LET ct == TypeKey(customerType)
      byC == IF code # NULL THEN ByCode(table, <<Upper(code), ct>>) ELSE 0
      byN == IF country # NULL THEN ByName(table, <<Lower(country), ct>>) ELSE 0
      gbT == ByCode(table, <<"GB", ct>>)
      gbS == ByCode(table, <<"GB", "single">>)
  IN  IF byN # 0 THEN RuleOf(table[byN])
      ELSE IF byC # 0 THEN RuleOf(table[byC])
      ELSE IF gbT # 0 THEN RuleOf(table[gbT])
      ELSE IF gbS # 0 THEN RuleOf(table[gbS])
      ELSE DefaultRule

\* part_000: pickRule
pickRule(table, code, country, customerType) ==
  LET ct == TypeKey(customerType)
      byC == IF code # NULL THEN ByCode(table, <<Upper(code), ct>>) ELSE 0
      byN == IF country # NULL THEN ByName(table, <<Lower(country), ct>>) ELSE 0
      gbT == ByCode(table, <<"GB", ct>>)
      gbS == ByCode(table, <<"GB", "single">>)
  IN  IF byC # 0 THEN RuleOf(table[byC])
      ELSE IF byN # 0 THEN RuleOf(table[byN])
      ELSE IF gbT # 0 THEN RuleOf(table[gbT])
      ELSE IF gbS # 0 THEN RuleOf(table[gbS])
      ELSE DefaultRule

\* sync-to-klaviyo.server.js: normType
normType(x) == IF x \in {"single", "repeat"} THEN x ELSE NULL

FirstOf(hits) == CHOOSE i \in hits : \A j \in hits : i <= j

\* sync-to-klaviyo.server.js: chooseRow; the result is the row's index, 0 if none
chooseRow(rows, code, customerType) ==
  LET c == Upper(IF code = NULL THEN "" ELSE code)
      t == normType(customerType)
      typeMatch(r) ==
        LET rt == normType(r.customer_type)
        IN  IF t = NULL /\ rt = NULL THEN TRUE
            ELSE IF t = NULL THEN FALSE
            ELSE IF rt = NULL THEN TRUE
            ELSE rt = t
      candidates == {i \in 1..Len(rows) :
                       Upper(rows[i].country_code) = c /\ typeMatch(rows[i])}
      exact == {i \in candidates : normType(rows[i].customer_type) = t}
      deflt == {i \in candidates : normType(rows[i].customer_type) = NULL}
  IN  IF candidates = {} THEN 0
      ELSE IF exact # {} THEN FirstOf(exact)
      ELSE IF deflt # {} THEN FirstOf(deflt)
      ELSE FirstOf(candidates)

\* sync-to-klaviyo.server.js: resolveEmailMethodFromMatrix (the matrix module
\* exports no getEmailMethodFor, so the JSON is read)
resolveEmailMethodFromMatrix(table, countryCode, customerType) ==
  IF countryCode = NULL THEN NULL
  ELSE LET i == chooseRow(table, countryCode, customerType)
       IN  IF i = 0 THEN NULL
           ELSE IF table[i].email_method \in {"SOI", "DOI"} THEN table[i].email_method
           ELSE NULL

\* payload.customer.orders_count and the answer of the numberOfOrders query
NoCount == 0 - 1
Counts == {NoCount, 1, 2}
QueryAnswers == {[threw |-> TRUE, n |-> NoCount], [threw |-> FALSE, n |-> NoCount],
                 [threw |-> FALSE, n |-> 2]}

TypeOfCount(n) == IF n > 1 THEN "repeat" ELSE "single"

\* the order-count query without its try / catch
resolveCustomerTypeRethrow(count, hasId, answer) ==
  IF count # NoCount
    THEN [count |-> count, type |-> TypeOfCount(count), threw |-> FALSE]
  ELSE IF hasId /\ answer.threw
    THEN [count |-> NoCount, type |-> NULL, threw |-> TRUE]
  ELSE IF hasId /\ answer.n # NoCount
    THEN [count |-> answer.n, type |-> TypeOfCount(answer.n), threw |-> FALSE]
  ELSE [count |-> NoCount, type |-> NULL, threw |-> FALSE]

\* webhooks.app.orders_create.jsx: resolveCustomerType
resolveCustomerType(count, hasId, answer) ==
  IF count # NoCount
    THEN [count |-> count, type |-> TypeOfCount(count), threw |-> FALSE]
  ELSE IF hasId /\ ~answer.threw /\ answer.n # NoCount
    THEN [count |-> answer.n, type |-> TypeOfCount(answer.n), threw |-> FALSE]
  ELSE [count |-> NoCount, type |-> NULL, threw |-> FALSE]

NoRule == [widget |-> NULL, emailMethod |-> NULL, country |-> NULL, countryCode |-> NULL]

NoPolicy ==
  [pc |-> "off", table |-> <<>>, code |-> NULL, country |-> NULL,
   customerType |-> NULL, count |-> NoCount, hasId |-> FALSE,
   answer |-> [threw |-> FALSE, n |-> NoCount],
   segment |-> [count |-> NoCount, type |-> NULL, threw |-> FALSE],
   rule |-> NoRule, row |-> 0, method |-> NULL]

\* one policy resolution: the customer's segment, then the rule and the
\* confirmation strength for the region and that segment (or for the segment
\* the caller names, "undefined" when it names none)
PolicyCall ==
  /\ policy.pc = "call"
  /\ LET seg == resolveCustomerType(policy.count, policy.hasId, policy.answer)
         ct == IF policy.customerType = "resolved" THEN seg.type
               ELSE policy.customerType
     IN  policy' =
           [policy EXCEPT
              !.pc = "returned", !.segment = seg,
              !.rule = pickRule(policy.table, policy.code, policy.country, ct),
              !.row = chooseRow(policy.table, policy.code, ct),
              !.method = resolveEmailMethodFromMatrix(policy.table, policy.code, ct)]
  /\ UNCHANGED <<now, customers, sessions, events, settings, sync, run, runs,
                 shopify, widget>>

\* ------------------------------------------------------------ store helpers
NewCustomer(email, sid, state, at) ==
  [email |-> email, sid |-> sid, lastState |-> state, lastConsentAt |-> at,
   until |-> NoTime, fstate |-> NULL]

\* a write that would break UNIQUE(shop, email) or UNIQUE(shop, shopifyCustomerId)
KeyConflict(id, email, sid) ==
  \E j \in RowIds \ {id} :
    \/ email # NULL /\ customers[j].email = email
    \/ sid # NULL /\ customers[j].sid = sid

\* how a run that starts relates to the run that finished before it:
\* a redelivery of the same signal, or the platform's echo of a push
After(prev, kind, sid, email, sessionId, state, ts) ==
  IF prev.pc # "done" THEN NULL
  ELSE IF /\ prev.kind = kind /\ prev.sid = sid /\ prev.email = email
          /\ prev.sessionId = sessionId /\ prev.ts = ts
          /\ (kind = "consent" => prev.state = state)
          /\ prev.outcome \in {"ok", "processed"}
    THEN "replay"
  ELSE IF /\ kind = "consent" /\ prev.kind = "orders" /\ prev.sid = sid
          /\ prev.state = state /\ prev.outcome = "ok"
          /\ prev.push \in {"ok", "retry_ok"}
    THEN "echo"
  ELSE NULL

\* the handler returns (or throws): the run is over
Finish(p, r, outcome) ==
  run' = [run EXCEPT ![p] =
            [IdleRun EXCEPT !.pc = "done", !.outcome = outcome, !.kind = r.kind,
                            !.sid = r.sid, !.email = r.email,
                            !.sessionId = r.sessionId, !.orderId = r.orderId,
                            !.state = r.state, !.ts = r.ts, !.push = r.push,
                            !.after = r.after, !.calls = r.calls]]

Goto(p, r, pc) ==
  run' = [run EXCEPT ![p] = [r EXCEPT !.pc = pc]]

\* ------------------------- customers_email_marketing_consent_update webhook

\* the window compared with < instead of <=
ShouldSuppressStrict(row, state, t) ==
  /\ row.until # NoTime
  /\ row.fstate # NULL
  /\ t < row.until
  /\ state = row.fstate

\* lines 60-62: within the window and the same state
ShouldSuppress(row, state, t) ==
  /\ row.until # NoTime
  /\ row.fstate # NULL
  /\ t <= row.until
  /\ state = row.fstate

\* lines 20-31: the payload is read; consentAt defaults to new Date()
CW_Start(p) ==
  /\ CanStart(p)
  /\ EventRoom
  /\ \E sid \in Sids, email \in Emails \cup {NULL}, raw \in RawStates,
        ts \in (0..now) \cup {NoTime} :
       run' = [run EXCEPT ![p] =
                 [IdleRun EXCEPT !.pc = "cw_find", !.kind = "consent",
                                 !.sid = sid, !.email = email,
                                 !.state = toState(raw), !.ts = ts,
                                 !.at = IF ts = NoTime THEN now ELSE ts,
                                 !.after = After(run[p], "consent", sid, email,
                                                 NULL, toState(raw), ts)]]
  /\ runs' = runs + 1
  /\ UNCHANGED <<now, customers, sessions, events, ext>>

\* lines 33-77: find the record by id, else by email; check the fence
CW_Find(p) ==
  /\ run[p].pc = "cw_find"
  /\ LET r == run[p]
         found == IF RowsBySid(r.sid) # {} THEN RowsBySid(r.sid)
                  ELSE RowsByEmail(r.email)
     IN  IF found = {}
           THEN Goto(p, r, "cw_write")
           ELSE \E id \in found :
                  Goto(p, [r EXCEPT !.existing = id],
                       IF ShouldSuppress(customers[id], r.state, now)
                         THEN "cw_clear" ELSE "cw_write")
  /\ UNCHANGED <<now, customers, sessions, events, ext, runs>>

\* lines 68-75: a known echo; clear the fence and return
CW_Clear(p) ==
  /\ run[p].pc = "cw_clear"
  /\ customers' = [customers EXCEPT ![run[p].existing].until = NoTime,
                                    ![run[p].existing].fstate = NULL]
  /\ Finish(p, run[p], "suppressed")
  /\ UNCHANGED <<now, sessions, events, ext, runs>>

\* the update without the two fence columns
HonorKeepFence(row, r) ==
  [row EXCEPT !.email = IF r.email # NULL THEN r.email ELSE @,
              !.sid = IF r.sid # NULL THEN r.sid ELSE @,
              !.lastState = r.state,
              !.lastConsentAt = r.at]

\* lines 83-95: the data written to the record found; the fence is cleared
Honor(row, r) ==
  [row EXCEPT !.email = IF r.email # NULL THEN r.email ELSE @,
              !.sid = IF r.sid # NULL THEN r.sid ELSE @,
              !.lastState = r.state,
              !.lastConsentAt = r.at,
              !.until = NoTime,
              !.fstate = NULL]

\* lines 79-110: update the record found, else create one
CW_Write(p) ==
  /\ run[p].pc = "cw_write"
  /\ LET r == run[p] IN
     IF r.existing # NoRow
       THEN IF KeyConflict(r.existing, r.email, r.sid)
              THEN /\ Finish(p, r, "key_conflict")
                   /\ UNCHANGED customers
              ELSE /\ customers' =
                        [customers EXCEPT ![r.existing] = Honor(@, r)]
                   /\ Goto(p, [r EXCEPT !.row = r.existing], "cw_event")
       ELSE IF KeyConflict(NoRow, r.email, r.sid)
              THEN /\ Finish(p, r, "key_conflict")
                   /\ UNCHANGED customers
              ELSE /\ customers' =
                        Append(customers, NewCustomer(r.email, r.sid, r.state, r.at))
                   /\ Goto(p, [r EXCEPT !.row = Len(customers) + 1], "cw_event")
  /\ UNCHANGED <<now, sessions, events, ext, runs>>

\* lines 112-127: the audit event
CW_Event(p) ==
  /\ run[p].pc = "cw_event"
  /\ events' = Append(events,
       [sessionId |-> NULL, customerId |-> run[p].row,
        type |-> "shopify_subscription_update", state |-> run[p].state])
  /\ LET r2 == [run[p] EXCEPT !.calls = Log(p, Call("event", run[p].state))]
     IN  IF r2.email # NULL
           THEN Goto(p, r2, "cw_sync")
           ELSE Finish(p, r2, "processed")
  /\ UNCHANGED <<now, customers, sessions, ext, runs>>

\* lines 129-146: syncKlaviyoForCustomer is called, its errors are swallowed
\* (what the call does at the provider is syncKlaviyoForCustomer above)
CW_Sync(p) ==
  /\ run[p].pc = "cw_sync"
  /\ LET r == run[p]
         sub == IF r.state = "SUBSCRIBED" THEN "true" ELSE "false"
     IN  Finish(p, [r EXCEPT !.calls = Log(p, Call("syncKlaviyo", sub))], "processed")
  /\ UNCHANGED <<now, customers, sessions, events, ext, runs>>

\* ------------------------------------------------- sessions and toggles

\* api.consent.start.jsx: a session is created with the mode shown
ConsentStart ==
  /\ \E s \in SessionIds, mode \in Modes :
       /\ ~SessionExists(s)
       /\ sessions' = [sessions EXCEPT ![s] = [NoSession EXCEPT !.mode = mode]]
  /\ UNCHANGED <<now, customers, events, ext, run, runs>>

\* a toggle endpoint that also writes the toggled state to the customer records
ToggleEventWritesCustomer ==
  /\ EventRoom
  /\ \E s \in SessionIds, state \in States \cup {NULL} :
       /\ SessionExists(s)
       /\ events' = Append(events,
            [sessionId |-> s, customerId |-> NoRow,
             type |-> "shopify_checkout_toggle", state |-> state])
       /\ customers' = [i \in RowIds |-> [customers[i] EXCEPT !.lastState = state]]
  /\ UNCHANGED <<now, sessions, ext, run, runs>>

\* api.consent.event.jsx: a checkout-toggle event is appended for the session
\* (ConsentEvent.sessionId is a foreign key: the session has to exist)
ToggleEvent ==
  /\ EventRoom
  /\ \E s \in SessionIds, state \in States \cup {NULL} :
       /\ SessionExists(s)
       /\ events' = Append(events,
            [sessionId |-> s, customerId |-> NoRow,
             type |-> "shopify_checkout_toggle", state |-> state])
  /\ UNCHANGED <<now, customers, sessions, ext, run, runs>>

\* ------------------------------------------------- orders_create webhook

\* Checkout.jsx lines 128-137: no settings yet (the mode shown is then NO_CHECKBOX), no
\* session id, the box unchecked; attr is the checkout's consent_uuid
\* attribute, status what the last policy request came to
NoWidget ==
  [token |-> NULL, email |-> NULL, mode |-> NULL, displayText |-> NULL,
   sessionId |-> NULL, attr |-> NULL, checked |-> FALSE, status |-> NULL]

\* the platform's customer 101: the consent state it holds, the consent
\* webhooks it has sent and that are not delivered yet, and whether it has
\* refused a push; state NULL where the platform's side is not followed and
\* webhooks arrive as free input
NoShopify == [state |-> NULL, webhooks |-> <<>>, failed |-> FALSE]

\* customerEmailMarketingConsentUpdate accepted: the platform holds the state
\* and sends customers/email_marketing_consent_update
Pushed(pf, state) ==
  IF pf.state = NULL THEN pf
  ELSE [pf EXCEPT !.state = state, !.webhooks = Append(@, state)]

\* a mutation answered with userErrors, or that threw
Refused(pf) == IF pf.state = NULL THEN pf ELSE [pf EXCEPT !.failed = TRUE]

MarketingState(subscribe) == IF subscribe = "true" THEN "SUBSCRIBED" ELSE "UNSUBSCRIBED"

Toggles(s) ==
  {i \in 1..Len(events) :
     events[i].sessionId = s /\ events[i].type = "shopify_checkout_toggle"}

\* findFirst(... orderBy: { createdAt: "desc" }): createdAt has millisecond
\* resolution, so the events table is kept in createdAt order and the latest
\* toggle is the one inserted last
LatestToggle(s) == CHOOSE i \in Toggles(s) : \A j \in Toggles(s) : j <= i

\* the decision with a guess where there is no session: subscribed
DecideSubscribeGuess(toggleState, mode) ==
  IF toggleState # NULL THEN (IF toggleState = "SUBSCRIBED" THEN "true" ELSE "false")
  ELSE IF mode \in {"OPT_IN"} THEN "false"
  ELSE "true"

\* lines 123-134: the subscribe decision
DecideSubscribe(toggleState, mode) ==
  IF toggleState # NULL THEN (IF toggleState = "SUBSCRIBED" THEN "true" ELSE "false")
  ELSE IF mode # NULL
    THEN IF mode \in {"OPT_OUT", "NO_CHECKBOX"} THEN "true"
         ELSE IF mode = "OPT_IN" THEN "false"
         ELSE "undefined"
  ELSE "undefined"

Known(subscribe) == subscribe \in {"true", "false"}

\* where the run goes after the customer upsert and the provider sync
SessionPhase(r) == IF r.sessionId # NULL THEN "oc_session" ELSE "done"
PushPhase(r) ==
  IF r.sid # NULL /\ Known(r.subscribe)
    THEN IF r.row # NoRow THEN "oc_arm" ELSE "oc_mutate"
    ELSE SessionPhase(r)
\* the failure paths without the clear
ClearPhaseNever(r) == SessionPhase(r)

\* lines 273, 282: the fence is cleared if there is a record
ClearPhase(r) == IF r.row # NoRow THEN "oc_clear" ELSE SessionPhase(r)

Step(p, r, pc) ==
  IF pc = "done" THEN Finish(p, r, "ok") ELSE Goto(p, r, pc)

\* lines 101-108: the payload is read
OC_Start(p) ==
  /\ CanStart(p)
  /\ EventRoom
  /\ \E s \in SessionIds \cup {NULL}, o \in OrderIds,
        email \in Emails \cup {NULL}, sid \in Sids \cup {NULL} :
       run' = [run EXCEPT ![p] =
                 [IdleRun EXCEPT !.pc = "oc_load", !.kind = "orders",
                                 !.sessionId = s, !.orderId = o,
                                 !.email = email, !.sid = sid,
                                 !.after = After(run[p], "orders", sid, email,
                                                 s, NULL, NoTime)]]
  /\ runs' = runs + 1
  /\ UNCHANGED <<now, customers, sessions, events, ext>>

\* lines 110-136: session, latest toggle, resolved state
OC_Load(p) ==
  /\ run[p].pc = "oc_load"
  /\ LET r == run[p]
         s == r.sessionId
         mode == IF SessionExists(s) THEN sessions[s].mode ELSE NULL
         t == IF s = NULL \/ Toggles(s) = {} THEN NULL
              ELSE events[LatestToggle(s)].state
     IN    LET subscribe == DecideSubscribe(t, mode)
               r2 == [r EXCEPT !.mode = mode, !.subscribe = subscribe,
                               !.state = toStateFromSubscribe(subscribe)]
           IN  Step(p, r2, IF r.email # NULL THEN "oc_find" ELSE PushPhase(r2))
  /\ UNCHANGED <<now, customers, sessions, events, ext, runs>>

\* lines 157-163: the stored state the change detection compares with
OC_Find(p) ==
  /\ run[p].pc = "oc_find"
  /\ LET r == run[p] IN
     IF RowsByEmail(r.email) = {}
       THEN Goto(p, r, "oc_upsert")
       ELSE \E id \in RowsByEmail(r.email) :
              Goto(p, [r EXCEPT !.existing = id,
                                !.prevState = customers[id].lastState],
                   "oc_upsert")
  /\ UNCHANGED <<now, customers, sessions, events, ext, runs>>

\* lines 199-201
StateChanged(r) == Known(r.subscribe) /\ r.prevState # r.state

\* lines 165-197: upsert by (shop, email); lastState and lastConsentAt are
\* written only when the outcome is known
OC_Upsert(p) ==
  /\ run[p].pc = "oc_upsert"
  /\ LET r == run[p]
         hit == RowsByEmail(r.email)
         id == IF hit = {} THEN Len(customers) + 1 ELSE CHOOSE i \in hit : TRUE
         r2 == [r EXCEPT !.row = id]
         next == IF StateChanged(r2) THEN "oc_sync" ELSE PushPhase(r2)
     IN  IF KeyConflict(IF hit = {} THEN NoRow ELSE id, NULL, r.sid)
           THEN /\ Finish(p, r, "key_conflict")
                /\ UNCHANGED customers
           ELSE /\ customers' =
                     IF hit = {}
                       THEN Append(customers,
                              NewCustomer(r.email, r.sid,
                                IF Known(r.subscribe) THEN r.state ELSE NULL,
                                IF Known(r.subscribe) THEN now ELSE NoTime))
                       ELSE [customers EXCEPT ![id] =
                              [@ EXCEPT !.sid = IF r.sid # NULL THEN r.sid ELSE @,
                                        !.lastState =
                                           IF Known(r.subscribe) THEN r.state ELSE @,
                                        !.lastConsentAt =
                                           IF Known(r.subscribe) THEN now ELSE @]]
                /\ Step(p, r2, next)
  /\ UNCHANGED <<now, sessions, events, ext, runs>>

\* the sync without its try / catch: a throw ends the handler
AfterSyncRethrow(r, res) == IF res = "threw" THEN "done" ELSE PushPhase(r)

\* lines 215-217: a sync that threw is logged and the handler goes on
AfterSync(r, res) == PushPhase(r)

\* lines 203-217: syncKlaviyoForCustomer is called, its errors are swallowed
OC_Sync(p) ==
  /\ run[p].pc = "oc_sync"
  /\ \E res \in {"ok", "threw"} :
       LET r == run[p]
           r2 == [r EXCEPT !.synced = res,
                           !.calls = Log(p, Call("syncKlaviyo", r.subscribe))]
       IN  Step(p, r2, AfterSync(r2, res))
  /\ UNCHANGED <<now, customers, sessions, events, ext, runs>>

\* setConsentWebhookSuppression
SetSuppression(row, state, t, minutes) ==
  [row EXCEPT !.until = t + minutes, !.fstate = state]
\* clearConsentWebhookSuppression
ClearSuppression(row) == [row EXCEPT !.until = NoTime, !.fstate = NULL]

\* lines 229-232: the fence is armed before the platform is called
OC_Arm(p) ==
  /\ run[p].pc = "oc_arm"
  /\ customers' = [customers EXCEPT ![run[p].row] =
                     SetSuppression(@, run[p].state, now, FenceMinutes)]
  /\ Goto(p, [run[p] EXCEPT !.calls = Log(p, Call("arm", run[p].state))], "oc_mutate")
  /\ UNCHANGED <<now, sessions, events, ext, runs>>

\* what the platform answers to a mutation
MutationResults == {"ok", "unique_email", "errors", "threw"}

\* the corrective update and retry taken after any userErrors or throw
AfterMutationRetryAny(r, res) ==
  IF res = "ok" THEN SessionPhase(r)
  ELSE IF r.email # NULL THEN "oc_custupdate"
  ELSE ClearPhase(r)

\* lines 234-255, 270-283: customerEmailMarketingConsentUpdate, first attempt
AfterMutation(r, res) ==
  IF res = "ok" THEN SessionPhase(r)
  ELSE IF res = "unique_email" /\ r.email # NULL THEN "oc_custupdate"
  ELSE ClearPhase(r)

OC_Mutate(p) ==
  /\ run[p].pc = "oc_mutate"
  /\ \E res \in MutationResults :
       LET r == run[p]
           r2 == [r EXCEPT !.push = res,
                           !.calls = Log(p, Call("consentUpdate",
                              IF r.subscribe = "true" THEN "SUBSCRIBED"
                              ELSE "UNSUBSCRIBED"))]
       IN  /\ Step(p, r2, AfterMutation(r2, res))
           /\ shopify' = IF res = "ok" THEN Pushed(shopify, MarketingState(r.subscribe))
                         ELSE Refused(shopify)
  /\ UNCHANGED <<now, customers, sessions, events, settings, sync, policy, widget,
                 runs>>

\* lines 256-262, 267-269: the corrective customerUpdate
OC_CustUpdate(p) ==
  /\ run[p].pc = "oc_custupdate"
  /\ \E res \in {"ok", "errors", "threw"} :
       LET r == run[p]
           r2 == [r EXCEPT !.push = IF res = "ok" THEN r.push ELSE "update_" \o res,
                           !.calls = Log(p, Call("customerUpdate", r.email))]
       IN  /\ Step(p, r2, IF res = "ok" THEN "oc_retry" ELSE ClearPhase(r2))
           /\ shopify' = IF res = "ok" THEN shopify ELSE Refused(shopify)
  /\ UNCHANGED <<now, customers, sessions, events, settings, sync, policy, widget,
                 runs>>

\* lines 263-266, 273: the one retry; the clear at line 273 follows whatever
\* the retry returned
AfterRetry(r, res) == ClearPhase(r)

OC_Retry(p) ==
  /\ run[p].pc = "oc_retry"
  /\ \E res \in {"ok", "errors", "threw"} :
       LET r == run[p]
           r2 == [r EXCEPT !.push = "retry_" \o res,
                           !.calls = Log(p, Call("consentUpdate",
                              IF r.subscribe = "true" THEN "SUBSCRIBED"
                              ELSE "UNSUBSCRIBED"))]
       IN  /\ Step(p, r2, AfterRetry(r2, res))
           /\ shopify' = IF res = "ok" THEN Pushed(shopify, MarketingState(r.subscribe))
                         ELSE Refused(shopify)
  /\ UNCHANGED <<now, customers, sessions, events, settings, sync, policy, widget,
                 runs>>

\* lines 273, 282: clearConsentWebhookSuppression
OC_Clear(p) ==
  /\ run[p].pc = "oc_clear"
  /\ customers' = [customers EXCEPT ![run[p].row] = ClearSuppression(@)]
  /\ LET r2 == [run[p] EXCEPT !.calls = Log(p, Call("clear", run[p].state))]
     IN  Step(p, r2, SessionPhase(r2))
  /\ UNCHANGED <<now, sessions, events, ext, runs>>

\* lines 290-306: link the session to the order; a failure is swallowed
OC_Session(p) ==
  /\ run[p].pc = "oc_session"
  /\ LET r == run[p]
         s == r.sessionId
         taken == \E t \in SessionIds \ {s} : sessions[t].orderId = r.orderId
     IN  /\ sessions' =
              IF SessionExists(s) /\ ~taken
                THEN [sessions EXCEPT ![s] =
                        [@ EXCEPT !.orderId = r.orderId, !.customerId = r.row,
                                  !.subscribed = IF Known(r.subscribe)
                                                   THEN r.subscribe ELSE NULL]]
                ELSE sessions
         /\ Goto(p, r, IF r.row # NoRow THEN "oc_backfill" ELSE "oc_event")
  /\ UNCHANGED <<now, customers, events, ext, runs>>

\* lines 308-314: earlier events of the session get the customer link
OC_Backfill(p) ==
  /\ run[p].pc = "oc_backfill"
  /\ events' = [i \in 1..Len(events) |->
                  IF events[i].sessionId = run[p].sessionId
                     /\ events[i].customerId = NoRow
                    THEN [events[i] EXCEPT !.customerId = run[p].row]
                    ELSE events[i]]
  /\ Goto(p, run[p], "oc_event")
  /\ UNCHANGED <<now, customers, sessions, ext, runs>>

\* lines 316-331: the checkout-completed event (sessionId is a foreign key)
OC_Event(p) ==
  /\ run[p].pc = "oc_event"
  /\ IF SessionExists(run[p].sessionId)
       THEN /\ events' = Append(events,
                 [sessionId |-> run[p].sessionId, customerId |-> run[p].row,
                  type |-> "shopify_checkout", state |-> run[p].state])
            /\ Finish(p, [run[p] EXCEPT !.calls = Log(p, Call("event", run[p].state))],
                      "ok")
       ELSE /\ Finish(p, run[p], "error")
            /\ UNCHANGED events
  /\ UNCHANGED <<now, customers, sessions, ext, runs>>

\* ------------------------------------------------ customers_update webhook

\* the state resolved from email_marketing_consent.state alone
resolveMarketingStateNoFallback(raw, accepts) ==
  IF raw = "subscribed" THEN "SUBSCRIBED"
  ELSE IF raw = "unsubscribed" THEN "UNSUBSCRIBED"
  ELSE IF raw = "not_subscribed" THEN "NOT_SUBSCRIBED"
  ELSE NULL

\* webhooks.app.customers_update.jsx: resolveMarketingState
resolveMarketingState(raw, accepts) ==
  IF raw = "subscribed" THEN "SUBSCRIBED"
  ELSE IF raw = "unsubscribed" THEN "UNSUBSCRIBED"
  ELSE IF raw = "not_subscribed" THEN "NOT_SUBSCRIBED"
  ELSE IF accepts = "true" THEN "SUBSCRIBED"
  ELSE IF accepts = "false" THEN "NOT_SUBSCRIBED"
  ELSE NULL

\* payload.accepts_marketing: a boolean or absent
Accepts == {"true", "false", NULL}

\* lines 29-38: the payload is read; without a customer id there is nothing to do
CU_Start(p) ==
  /\ CanStart(p)
  /\ EventRoom
  /\ \E sid \in Sids \cup {NULL}, email \in Emails \cup {NULL}, raw \in RawStates,
        accepts \in Accepts, ts \in (0..now) \cup {NoTime} :
       LET r == [IdleRun EXCEPT !.kind = "profile", !.sid = sid, !.email = email,
                                !.raw = raw, !.accepts = accepts, !.ts = ts,
                                !.at = IF ts = NoTime THEN now ELSE ts]
       IN  IF sid = NULL
             THEN Finish(p, [r EXCEPT !.raw = NULL, !.accepts = NULL, !.ts = NoTime,
                                      !.email = NULL], "ok")
             ELSE Goto(p, r, "cu_find")
  /\ runs' = runs + 1
  /\ UNCHANGED <<now, customers, sessions, events, ext>>

\* lines 40-64: the current record by (shop, shopifyCustomerId), the patch,
\* the state and time used on create
CU_Find(p) ==
  /\ run[p].pc = "cu_find"
  /\ LET r == run[p]
         res == resolveMarketingState(r.raw, r.accepts)
         r2 == [r EXCEPT !.state = IF res # NULL THEN res ELSE "NOT_SUBSCRIBED"]
     IN  IF RowsBySid(r.sid) = {}
           THEN Goto(p, [r2 EXCEPT !.patch = "email"], "cu_upsert")
           ELSE \E id \in RowsBySid(r.sid) :
                  Goto(p, [r2 EXCEPT !.existing = id,
                                     !.patch = IF customers[id].email # r.email
                                                 THEN "email" ELSE "none"],
                       "cu_upsert")
  /\ UNCHANGED <<now, customers, sessions, events, ext, runs>>

\* lines 66-83: upsert by (shop, shopifyCustomerId); the update branch writes
\* the patch only, the create branch seeds lastState and lastConsentAt; an
\* event follows if a field changed (first and last name are not modelled:
\* whether they changed is drawn)
CU_Upsert(p) ==
  /\ run[p].pc = "cu_upsert"
  /\ \E nameChanged \in BOOLEAN :
       LET r == run[p]
           hit == RowsBySid(r.sid)
           id == IF hit = {} THEN Len(customers) + 1 ELSE CHOOSE i \in hit : TRUE
           r2 == [r EXCEPT !.row = id]
           changed == r.existing = NoRow \/ r.patch = "email" \/ nameChanged
       IN  IF hit = {}
             THEN IF KeyConflict(NoRow, r.email, r.sid)
                    THEN /\ Finish(p, r, "key_conflict")
                         /\ UNCHANGED customers
                    ELSE /\ customers' =
                              Append(customers, NewCustomer(r.email, r.sid, r.state, r.at))
                         /\ Step(p, r2, IF changed THEN "cu_event" ELSE "done")
             ELSE IF r.patch = "email" /\ KeyConflict(id, r.email, NULL)
                    THEN /\ Finish(p, r, "key_conflict")
                         /\ UNCHANGED customers
                    ELSE /\ customers' =
                              [customers EXCEPT ![id].email =
                                 IF r.patch = "email" THEN r.email ELSE @]
                         /\ Step(p, r2, IF changed THEN "cu_event" ELSE "done")
  /\ UNCHANGED <<now, sessions, events, ext, runs>>

\* lines 83-93: the profile-update event (it carries no state)
CU_Event(p) ==
  /\ run[p].pc = "cu_event"
  /\ events' = Append(events,
       [sessionId |-> NULL, customerId |-> run[p].row,
        type |-> "shopify_profile_update", state |-> NULL])
  /\ Finish(p, run[p], "ok")
  /\ UNCHANGED <<now, customers, sessions, ext, runs>>

\* ---------------------------------------------- bulk sync (part_005)

\* emailMarketingConsent.marketingState as the platform reports it
MarketingStates == {"SUBSCRIBED", "UNSUBSCRIBED", "NOT_SUBSCRIBED", "PENDING", NULL}

\* part_005: mapState
mapState(s) ==
  IF s = "SUBSCRIBED" THEN "SUBSCRIBED"
  ELSE IF s = "UNSUBSCRIBED" THEN "UNSUBSCRIBED"
  ELSE IF s = "NOT_SUBSCRIBED" THEN "NOT_SUBSCRIBED"
  ELSE "NOT_SUBSCRIBED"

\* upsertOne lines 87-100: one customer node of a page; the flags are the
\* command line's
BS_Start(p) ==
  /\ CanStart(p)
  /\ EventRoom
  /\ \E sid \in Sids, email \in Emails \cup {NULL}, raw \in MarketingStates,
        ts \in (0..now) \cup {NoTime}, dry \in BOOLEAN, push \in BOOLEAN :
       run' = [run EXCEPT ![p] =
                 [IdleRun EXCEPT !.pc = "bs_find", !.kind = "bulk",
                                 !.sid = sid, !.email = email, !.raw = raw,
                                 !.state = mapState(IF raw = NULL THEN "NOT_SUBSCRIBED"
                                                    ELSE raw),
                                 !.ts = ts,
                                 !.at = IF ts = NoTime THEN now ELSE ts,
                                 !.dryRun = dry, !.pushKlaviyo = push]]
  /\ runs' = runs + 1
  /\ UNCHANGED <<now, customers, sessions, events, ext>>

\* main lines 206-220: the provider sync of a node, if asked for
AfterUpsertOne(r) ==
  IF r.pushKlaviyo /\ r.email # NULL THEN "bs_sync" ELSE "done"

\* upsertOne lines 102-131: the record by customer id, else by email
BS_Find(p) ==
  /\ run[p].pc = "bs_find"
  /\ LET r == run[p]
         found == IF RowsBySid(r.sid) # {} THEN RowsBySid(r.sid)
                  ELSE RowsByEmail(r.email)
     IN  IF found = {}
           THEN Step(p, r, IF r.dryRun THEN AfterUpsertOne(r) ELSE "bs_write")
           ELSE \E id \in found :
                  LET r2 == [r EXCEPT !.existing = id]
                  IN  Step(p, r2, IF r.dryRun THEN AfterUpsertOne(r2) ELSE "bs_write")
  /\ UNCHANGED <<now, customers, sessions, events, ext, runs>>

\* upsertOne lines 114-145: the record is updated with the node's data, or
\* created; a key conflict is caught and logged by the page loop (line 221)
BS_Write(p) ==
  /\ run[p].pc = "bs_write"
  /\ LET r == run[p] IN
     IF KeyConflict(r.existing, r.email, r.sid)
       THEN /\ Finish(p, r, "key_conflict")
            /\ UNCHANGED customers
       ELSE IF r.existing # NoRow
         THEN /\ customers' =
                   [customers EXCEPT ![r.existing] =
                      [@ EXCEPT !.email = r.email, !.sid = r.sid,
                                !.lastState = r.state, !.lastConsentAt = r.at]]
              /\ Goto(p, [r EXCEPT !.row = r.existing], "bs_event")
         ELSE /\ customers' =
                   Append(customers, NewCustomer(r.email, r.sid, r.state, r.at))
              /\ Goto(p, [r EXCEPT !.row = Len(customers) + 1], "bs_event")
  /\ UNCHANGED <<now, sessions, events, ext, runs>>

\* upsertOne lines 147-171: the shopify_sync event
BS_Event(p) ==
  /\ run[p].pc = "bs_event"
  /\ events' = Append(events,
       [sessionId |-> NULL, customerId |-> run[p].row,
        type |-> "shopify_sync", state |-> run[p].state])
  /\ LET r2 == [run[p] EXCEPT !.calls = Log(p, Call("event", run[p].state))]
     IN  Step(p, r2, AfterUpsertOne(r2))
  /\ UNCHANGED <<now, customers, sessions, ext, runs>>

\* main lines 206-218: syncKlaviyoForCustomer, its errors are logged
BS_Sync(p) ==
  /\ run[p].pc = "bs_sync"
  /\ LET r == run[p]
         sub == IF r.state = "SUBSCRIBED" THEN "true" ELSE "false"
     IN  Finish(p, [r EXCEPT !.calls = Log(p, Call("syncKlaviyo", sub))], "ok")
  /\ UNCHANGED <<now, customers, sessions, events, ext, runs>>

BulkSync(p) ==
  \/ BS_Start(p) \/ BS_Find(p) \/ BS_Write(p) \/ BS_Event(p) \/ BS_Sync(p)

\* ------------------------------------------------------------ specification
NoSettings == [hasKey |-> FALSE, single |-> NULL, double |-> NULL]

Init ==
  /\ now = 0
  /\ customers = <<>>
  /\ sessions = [s \in SessionIds |-> NoSession]
  /\ events = <<>>
  /\ settings = NoSettings
  /\ sync = NoSync
  /\ runs = 0
  /\ run = [p \in Procs |-> IF p = "p1" THEN IdleRun ELSE OffRun]
  /\ shopify = NoShopify
  /\ widget = NoWidget
  /\ policy = NoPolicy

ConsentWebhook(p) ==
  \/ CW_Start(p) \/ CW_Find(p) \/ CW_Clear(p) \/ CW_Write(p) \/ CW_Event(p)
  \/ CW_Sync(p)

CustomersUpdate(p) ==
  \/ CU_Start(p) \/ CU_Find(p) \/ CU_Upsert(p) \/ CU_Event(p)

OrdersCreate(p) ==
  \/ OC_Start(p) \/ OC_Load(p) \/ OC_Find(p) \/ OC_Upsert(p) \/ OC_Sync(p)
  \/ OC_Arm(p) \/ OC_Mutate(p) \/ OC_CustUpdate(p) \/ OC_Retry(p) \/ OC_Clear(p)
  \/ OC_Session(p) \/ OC_Backfill(p) \/ OC_Event(p)

Next ==
  \/ Tick
  \/ ConsentStart
  \/ ToggleEvent
  \/ \E p \in Procs : ConsentWebhook(p)
  \/ \E p \in Procs : OrdersCreate(p)

Spec == Init /\ [][Next]_vars

\* the three webhook topics together, at one instant of the clock: what the
\* handlers do to the customer records they share
NextSignals ==
  \/ ConsentStart
  \/ \E p \in Procs : ConsentWebhook(p)
  \/ \E p \in Procs : OrdersCreate(p)
  \/ \E p \in Procs : CustomersUpdate(p)

SpecSignals == Init /\ [][NextSignals]_vars

\* the bulk sync run over the shop's customers, page after page
NextBulk ==
  \/ Tick
  \/ \E p \in Procs : BulkSync(p)

SpecBulk == Init /\ [][NextBulk]_vars

\* the writers of a customer's record one after another in any order:
\* orders_create runs, bulk sync rows and consent webhooks, at one instant of
\* the clock; the customer may already be known, with the fence of an earlier
\* push armed
InitWriters ==
  /\ now = 0
  /\ customers \in {<<>>} \cup
       {<<SetSuppression(NewCustomer("a@x", "101", st, 0), st, 0, FenceMinutes)>> :
          st \in {"SUBSCRIBED", "UNSUBSCRIBED"}}
  /\ sessions \in [SessionIds -> {[NoSession EXCEPT !.mode = m] : m \in Modes}]
  /\ events = <<>>
  /\ settings = NoSettings
  /\ sync = NoSync
  /\ runs = 0
  /\ run = [p \in Procs |-> IF p = "p1" THEN IdleRun ELSE OffRun]
  /\ shopify = NoShopify
  /\ widget = NoWidget
  /\ policy = NoPolicy

NextWriters ==
  \/ \E p \in Procs : OrdersCreate(p)
  \/ \E p \in Procs : BulkSync(p)
  \/ \E p \in Procs : ConsentWebhook(p)

SpecWriters == InitWriters /\ [][NextWriters]_vars

\* the platform's webhooks delivered once each and in the order sent
PlatformRaw(state) ==
  IF state = "SUBSCRIBED" THEN "subscribed"
  ELSE IF state = "UNSUBSCRIBED" THEN "unsubscribed"
  ELSE "not_subscribed"

\* the consent webhook handler, lines 20-31, fed from the platform's queue
DW_Start(p) ==
  /\ CanStart(p)
  /\ EventRoom
  /\ shopify.state # NULL
  /\ shopify.webhooks # <<>>
  /\ LET state == toState(PlatformRaw(Head(shopify.webhooks)))
     IN  run' = [run EXCEPT ![p] =
                   [IdleRun EXCEPT !.pc = "cw_find", !.kind = "consent",
                                   !.sid = "101", !.email = "a@x",
                                   !.state = state, !.ts = NoTime, !.at = now,
                                   !.after = After(run[p], "consent", "101", "a@x",
                                                   NULL, state, NoTime)]]
  /\ shopify' = [shopify EXCEPT !.webhooks = Tail(@)]
  /\ runs' = runs + 1
  /\ UNCHANGED <<now, customers, sessions, events, settings, sync, policy, widget>>

DeliverWebhook(p) ==
  \/ DW_Start(p) \/ CW_Find(p) \/ CW_Clear(p) \/ CW_Write(p) \/ CW_Event(p)
  \/ CW_Sync(p)

\* the shop and the platform start in agreement about customer 101
InitPlatform ==
  /\ now = 0
  /\ \E st \in States :
       /\ customers \in {<<>>, <<NewCustomer("a@x", "101", st, 0)>>}
       /\ shopify = [state |-> st, webhooks |-> <<>>, failed |-> FALSE]
  /\ widget = NoWidget
  /\ sessions \in [SessionIds -> {[NoSession EXCEPT !.mode = m] : m \in Modes}]
  /\ events = <<>>
  /\ settings = NoSettings
  /\ sync = NoSync
  /\ runs = 0
  /\ run = [p \in Procs |-> IF p = "p1" THEN IdleRun ELSE OffRun]
  /\ policy = NoPolicy

NextPlatform ==
  \/ Tick
  \/ ToggleEvent
  \/ \E p \in Procs : OrdersCreate(p)
  \/ \E p \in Procs : DeliverWebhook(p)

SpecPlatform == InitPlatform /\ [][NextPlatform]_vars

\* policy resolution on its own: every matrix, lookup and order-count answer
InitPolicy ==
  /\ now = 0
  /\ customers = <<>>
  /\ sessions = [s \in SessionIds |-> NoSession]
  /\ events = <<>>
  /\ settings = NoSettings
  /\ sync = NoSync
  /\ runs = 0
  /\ run = [p \in Procs |-> OffRun]
  /\ shopify = NoShopify
  /\ widget = NoWidget
  /\ policy \in [pc : {"call"}, table : Tables,
                 code : {"GB", "de", "FR", NULL},
                 country : {"Germany", "United Kingdom", NULL},
                 customerType : {"resolved", "undefined"},
                 count : Counts, hasId : BOOLEAN, answer : QueryAnswers,
                 segment : {NoPolicy.segment}, rule : {NoRule}, row : {0},
                 method : {NULL}]

NextPolicy == PolicyCall

SpecPolicy == InitPolicy /\ [][NextPolicy]_vars

\* ------------------------------------------------- storefront endpoints
Tokens == {"t1", "t2"}              \* x-checkout-token headers
Uuids == {"s1", "s2"}               \* values randomUUID() can return
IpCountries == {"GB", "DE"}         \* countryFromIp(ip) ?? "GB"
EmailHeaders == {"A@X", NULL}

SessionsWithToken(ss, token) ==
  {s \in DOMAIN ss : ss[s].mode # NULL /\ ss[s].checkoutToken = token}

CreateSession(ss, id, token, mode, at) ==
  [ss EXCEPT ![id] = [NoSession EXCEPT !.mode = mode, !.checkoutToken = token,
                                       !.createdAt = at, !.updatedAt = at]]

\* an upsert that takes the create branch whatever is stored
UpsertSessionAlwaysCreate(ss, id, token, mode, at) ==
  [sessions |-> CreateSession(ss, id, token, mode, at), id |-> id]

\* api.settings.privacy.jsx lines 88-110: consentSession.upsert on the unique
\* checkoutToken, answering with the stored rows and the id selected
UpsertSession(ss, id, token, mode, at) ==
  LET hit == SessionsWithToken(ss, token)
  IN  IF hit # {}
        THEN LET s == CHOOSE x \in hit : TRUE
             IN  [sessions |-> [ss EXCEPT ![s].mode = mode, ![s].updatedAt = at],
                  id |-> s]
      ELSE [sessions |-> CreateSession(ss, id, token, mode, at), id |-> id]

\* the mode as the region's rule gives it, whatever is stored for the customer
ModeForRegionOnly(email, countryCode) ==
  LET rule == pickRule(policy.table, countryCode, NULL, "undefined")
  IN  IF rule.widget = NULL THEN "OPT_IN" ELSE rule.widget

\* loader lines 42-57, 77-79: the mode for the caller's region, OPT_IN for a
\* customer stored as UNSUBSCRIBED
ModeFor(email, countryCode) ==
  LET rule == pickRule(policy.table, countryCode, NULL, "undefined")
      found == RowsByEmail(email)
      currentState ==
        IF found = {} THEN NULL
        ELSE customers[CHOOSE i \in found : TRUE].lastState
      baseMode == IF rule.widget = NULL THEN "OPT_IN" ELSE rule.widget
  IN  IF currentState = "UNSUBSCRIBED" THEN "OPT_IN" ELSE baseMode

\* api.settings.privacy.jsx: loader, for one request
LoaderCall(p, token, header, countryCode, id) ==
  LET email == Lower(header)
      mode == ModeFor(email, countryCode)
      session == IF token = NULL THEN [sessions |-> sessions, id |-> NULL]
                 ELSE UpsertSession(sessions, id, token, mode, now)
  IN  /\ CanStart(p)
      \* randomUUID() names no stored session; it is drawn on create only
      /\ IF token # NULL /\ SessionsWithToken(sessions, token) = {}
           THEN sessions[id].mode = NULL
           ELSE id = CHOOSE x \in DOMAIN sessions : TRUE
      /\ sessions' = session.sessions
      /\ run' = [run EXCEPT ![p] =
           [IdleRun EXCEPT !.pc = "done", !.kind = "privacy",
              !.outcome = "ok", !.token = token, !.email = email,
              !.mode = mode, !.ts = now, !.sessionId = session.id]]
      /\ runs' = runs + 1

PrivacyLoader(p) ==
  /\ \E token \in Tokens \cup {NULL}, header \in EmailHeaders,
        countryCode \in IpCountries, id \in DOMAIN sessions :
       LoaderCall(p, token, header, countryCode, id)
  /\ UNCHANGED <<now, customers, events, ext>>

\* api.consent.event.jsx: action, for one request
EventCall(p, sessionId, type, state) ==
  LET req == [IdleRun EXCEPT !.pc = "done", !.kind = "toggle",
                             !.sessionId = sessionId, !.raw = type,
                             !.state = state, !.ts = now]
  IN  /\ CanStart(p)
      /\ EventRoom
      /\ IF sessionId = NULL \/ type = NULL
           THEN /\ run' = [run EXCEPT ![p] = [req EXCEPT !.outcome = "bad_request"]]
                /\ UNCHANGED <<events, sessions>>
         ELSE IF ~SessionExists(sessionId)
           \* consentEvent.create fails on ConsentEvent_sessionId_fkey
           THEN /\ run' = [run EXCEPT ![p] = [req EXCEPT !.outcome = "error"]]
                /\ UNCHANGED <<events, sessions>>
         ELSE /\ events' = Append(events,
                    [sessionId |-> sessionId, customerId |-> NoRow,
                     type |-> type, state |-> state])
              /\ sessions' = [sessions EXCEPT ![sessionId].updatedAt = now]
              /\ run' = [run EXCEPT ![p] = [req EXCEPT !.outcome = "ok"]]
      /\ runs' = runs + 1

ConsentEventPost(p) ==
  /\ \E sessionId \in DOMAIN sessions \cup {NULL},
        type \in {"shopify_checkout_toggle", NULL},
        state \in States :
       EventCall(p, sessionId, type, state)
  /\ UNCHANGED <<now, customers, ext>>

\* ---------------------------------------- checkout widget (Checkout.jsx)

\* line 133: settings?.mode || 'NO_CHECKBOX'
ShownMode(w) == IF w.mode = NULL THEN "NO_CHECKBOX" ELSE w.mode

\* loader lines 81-83: the text for a mode (the default texts differ per mode)
TextFor(mode) ==
  IF mode = "OPT_IN" THEN "optInText"
  ELSE IF mode = "OPT_OUT" THEN "optOutText"
  ELSE "noCheckboxText"

\* lines 161-185: a response is applied; settings are replaced unless the
\* texts compare equal, the session id is kept and written to the checkout
Applied(w, header, resp) ==
  LET w1 == IF w.displayText = TextFor(resp.mode) THEN w
            ELSE [w EXCEPT !.mode = resp.mode, !.displayText = TextFor(resp.mode)]
      w2 == IF resp.sessionId # NULL
              THEN [w1 EXCEPT !.sessionId = resp.sessionId, !.attr = resp.sessionId]
              ELSE w1
  IN  [w2 EXCEPT !.email = header, !.status = "ok"]

\* lines 157-194: the effect runs (on mount, or when the email changes) and
\* the policy request is answered
WG_Load(p) ==
  /\ widget.token # NULL
  /\ \E header \in EmailHeaders, countryCode \in IpCountries, id \in DOMAIN sessions :
       /\ LoaderCall(p, widget.token, header, countryCode, id)
       /\ widget' = Applied(widget, header, run'[p])
  /\ UNCHANGED <<now, customers, events, settings, sync, policy, shopify>>

\* a widget that falls back to the soft opt-in box when a request fails
FailedShowsBox(w, header) ==
  [w EXCEPT !.email = header, !.status = "failed", !.mode = "OPT_OUT",
            !.displayText = TextFor("OPT_OUT")]

\* lines 189-191: the catch logs the error; no state is set
Failed(w, header) == [w EXCEPT !.email = header, !.status = "failed"]

\* lines 153, 189-191: the request fails, before the server handled it or
\* after; the error is logged and nothing else happens in the widget
WG_LoadFails(p) ==
  /\ widget.token # NULL
  /\ \E header \in EmailHeaders, countryCode \in IpCountries, id \in DOMAIN sessions :
       /\ \/ LoaderCall(p, widget.token, header, countryCode, id)
          \/ UNCHANGED <<sessions, run, runs>>
       /\ widget' = Failed(widget, header)
  /\ UNCHANGED <<now, customers, events, settings, sync, policy, shopify>>

\* lines 207-215: what a box position means under the mode shown
ToggleState(mode, checked) ==
  IF mode = "OPT_OUT" THEN (IF checked THEN "UNSUBSCRIBED" ELSE "SUBSCRIBED")
  ELSE IF mode = "OPT_IN" THEN (IF checked THEN "SUBSCRIBED" ELSE "UNSUBSCRIBED")
  ELSE "NOT_SUBSCRIBED"

\* lines 198-236: the box is shown unless the mode is NO_CHECKBOX; a change is
\* posted with the state it means under the mode shown
WG_Toggle(p) ==
  /\ widget.token # NULL
  /\ ShownMode(widget) # "NO_CHECKBOX"
  /\ EventCall(p, widget.sessionId, "shopify_checkout_toggle",
               ToggleState(ShownMode(widget), ~widget.checked))
  /\ widget' = [widget EXCEPT !.checked = ~widget.checked]
  /\ UNCHANGED <<now, customers, settings, sync, policy, shopify>>

Widget(p) == WG_Load(p) \/ WG_LoadFails(p) \/ WG_Toggle(p)

\* ------------------------------------------------ prune job (part_004)

Checkouts(s) ==
  {i \in 1..Len(events) :
     events[i].sessionId = s /\ events[i].type = "shopify_checkout"}

\* lines 32-40: the flags are read and the cutoff is fixed (now - DAYS)
PR_Start(p) ==
  /\ CanStart(p)
  /\ \E dryRun \in BOOLEAN, cutoff \in 0..now :
       run' = [run EXCEPT ![p] =
                 [IdleRun EXCEPT !.pc = "pr_scan", !.kind = "prune",
                                 !.dryRun = dryRun, !.ts = cutoff]]
  /\ runs' = runs + 1
  /\ UNCHANGED <<now, customers, sessions, events, ext>>

\* lines 68-82: the sessions created before the cutoff (one batch holds them)
PR_Scan(p) ==
  /\ run[p].pc = "pr_scan"
  /\ LET r == run[p]
         old == {s \in DOMAIN sessions :
                   SessionExists(s) /\ sessions[s].createdAt < r.ts}
     IN  IF old = {} THEN Finish(p, r, "ok")
         ELSE Goto(p, [r EXCEPT !.del = old], "pr_check")
  /\ UNCHANGED <<now, customers, sessions, events, ext, runs>>

\* lines 85-103: those with a shopify_checkout event are kept
PR_Check(p) ==
  /\ run[p].pc = "pr_check"
  /\ LET r == run[p]
         deletable == {s \in r.del : Checkouts(s) = {}}
     IN  IF deletable = {} \/ r.dryRun
           THEN Finish(p, r, "ok")
           ELSE Goto(p, [r EXCEPT !.del = deletable], "pr_delete")
  /\ UNCHANGED <<now, customers, sessions, events, ext, runs>>

\* lines 126-130: one transaction deletes the events of the deletable
\* sessions, then the sessions
Deleted(r) ==
  [sessions |-> [s \in DOMAIN sessions |->
                   IF s \in r.del THEN NoSession ELSE sessions[s]],
   events |-> SelectSeq(events, LAMBDA e : e.sessionId \notin r.del)]

PR_Delete(p) ==
  /\ run[p].pc = "pr_delete"
  /\ sessions' = Deleted(run[p]).sessions
  /\ events' = Deleted(run[p]).events
  /\ Finish(p, run[p], "ok")
  /\ UNCHANGED <<now, customers, ext, runs>>

Prune(p) == PR_Start(p) \/ PR_Scan(p) \/ PR_Check(p) \/ PR_Delete(p)

\* the matrices the checkout is served from: empty, or one opt-in row
StoreTables ==
  {t \in Tables : Len(t) <= 1 /\ \A i \in 1..Len(t) :
     t[i].customer_type = NULL /\ t[i].widget = "OPT_IN"}

\* a shop with at most one known customer, seen from the checkout
InitStore ==
  /\ now = 0
  /\ customers \in {<<>>, <<NewCustomer("a@x", "101", "UNSUBSCRIBED", 0)>>}
  /\ sessions = [s \in Uuids |-> NoSession]
  /\ events = <<>>
  /\ settings = NoSettings
  /\ sync = NoSync
  /\ runs = 0
  /\ run = [p \in Procs |-> IF p = "p1" THEN IdleRun ELSE OffRun]
  /\ shopify = NoShopify
  /\ widget = NoWidget
  /\ policy \in {[NoPolicy EXCEPT !.table = t] : t \in StoreTables}

NextStore ==
  \/ Tick
  \/ \E p \in Procs : PrivacyLoader(p)
  \/ \E p \in Procs : ConsentEventPost(p)

SpecStore == InitStore /\ [][NextStore]_vars

\* one checkout: the widget and the order it ends in.  The widget is freshly
\* mounted, or has been served already: its session exists with the mode shown
InitCheckout ==
  /\ now = 0
  /\ customers \in {<<>>, <<NewCustomer("a@x", "101", "UNSUBSCRIBED", 0)>>}
  /\ policy \in {[NoPolicy EXCEPT !.table = t] : t \in StoreTables}
  /\ \/ /\ widget = [NoWidget EXCEPT !.token = "t1"]
        /\ sessions = [s \in SessionIds |-> NoSession]
     \/ \E countryCode \in IpCountries, s \in SessionIds :
          LET mode == ModeFor(NULL, countryCode)
          IN  /\ widget = [NoWidget EXCEPT !.token = "t1", !.mode = mode,
                                           !.displayText = TextFor(mode),
                                           !.sessionId = s, !.attr = s,
                                           !.status = "ok"]
              /\ sessions = CreateSession([x \in SessionIds |-> NoSession],
                                          s, "t1", mode, 0)
  /\ events = <<>>
  /\ settings = NoSettings
  /\ sync = NoSync
  /\ runs = 0
  /\ run = [p \in Procs |-> IF p = "p1" THEN IdleRun ELSE OffRun]
  /\ shopify = NoShopify

NextCheckout ==
  \/ \E p \in Procs : Widget(p)
  \/ \E p \in Procs : OrdersCreate(p)

SpecCheckout == InitCheckout /\ [][NextCheckout]_vars

\* the prune job next to the order webhook of a session that may be old
InitPrune ==
  /\ now \in 0..1
  /\ customers = <<>>
  /\ sessions \in [SessionIds ->
       {[NoSession EXCEPT !.mode = m, !.checkoutToken = "t1", !.createdAt = 0,
                          !.updatedAt = 0] : m \in Modes}]
  /\ events = <<>>
  /\ settings = NoSettings
  /\ sync = NoSync
  /\ runs = 0
  /\ run = [p \in Procs |-> IdleRun]
  /\ shopify = NoShopify
  /\ widget = NoWidget
  /\ policy = NoPolicy

NextPrune ==
  \/ Tick
  \/ OrdersCreate("p1")
  \/ Prune("p2")

SpecPrune == InitPrune /\ [][NextPrune]_vars

\* two orders_create deliveries handled at the same time, for a checkout whose
\* session exists
InitConc ==
  /\ now = 0
  /\ customers = <<>>
  /\ sessions \in [SessionIds -> {[NoSession EXCEPT !.mode = m] : m \in Modes}]
  /\ events = <<>>
  /\ settings = NoSettings
  /\ sync = NoSync
  /\ runs = 0
  /\ run = [p \in Procs |-> IdleRun]
  /\ shopify = NoShopify
  /\ widget = NoWidget
  /\ policy = NoPolicy

NextConc == \E p \in Procs : OrdersCreate(p)

SpecConc == InitConc /\ [][NextConc]_vars

\* the synchronizer on its own: every argument, list configuration and answer
InitSync ==
  /\ now = 0
  /\ customers = <<>>
  /\ sessions = [s \in SessionIds |-> NoSession]
  /\ events = <<>>
  /\ runs = 0
  /\ run = [p \in Procs |-> OffRun]
  /\ shopify = NoShopify
  /\ widget = NoWidget
  /\ policy = NoPolicy
  /\ settings \in SettingsSet
  /\ sync \in [pc : {"call"}, email : Emails \cup {NULL},
               subscribed : {"true", "false", "undefined"},
               sessionMode : {"OPT_IN", "OPT_OUT", NULL},
               evidence : Evidences, env : SyncEnvs,
               calls : {<<>>}, failed : {{}}, threw : {FALSE}]

NextSync == SyncCall

SpecSync == InitSync /\ [][NextSync]_vars

\* ==================================================================== claims

\* the record a consent webhook addresses: by platform id, else by email
Addressed(r) ==
  IF RowsBySid(r.sid) # {} THEN RowsBySid(r.sid) ELSE RowsByEmail(r.email)

\* the webhook meets a fence in its window that expects the state it reports
MeetsFence(r) ==
  \E id \in Addressed(r) :
    customers[id].fstate = r.state /\ now <= customers[id].until

Moves(p, pc) == run[p].pc = pc /\ run'[p].pc # pc

\* C1: a consent webhook that finds, on the customer's record, a fence armed
\* by orders_create with the state it reports and now <= until is discarded:
\* no status or timestamp is written, no audit event is appended, the
\* email-provider sync is not called; the fence is cleared.
C1_EchoSuppressed ==
  [][\A p \in Procs :
       /\ (Moves(p, "cw_find") /\ MeetsFence(run[p]))
            => /\ run'[p].pc = "cw_clear"
               /\ customers' = customers
               /\ events' = events
       /\ Moves(p, "cw_clear")
            => /\ run'[p].pc = "done"
               /\ run'[p].outcome = "suppressed"
               /\ run'[p].calls = <<>>
               /\ events' = events
               /\ Len(customers') = Len(customers)
               /\ \A i \in RowIds :
                    /\ customers'[i].lastState = customers[i].lastState
                    /\ customers'[i].lastConsentAt = customers[i].lastConsentAt
                    /\ customers'[i].email = customers[i].email
                    /\ customers'[i].sid = customers[i].sid
               /\ customers'[run[p].existing].until = NoTime
               /\ customers'[run[p].existing].fstate = NULL]_vars

\* C1 witness: the echo of a push that orders_create made was discarded
C1_Witness ==
  \E p \in Procs :
    /\ run[p].pc = "done" /\ run[p].kind = "consent"
    /\ run[p].after = "echo" /\ run[p].outcome = "suppressed"

\* C2: the second of two identical consent webhooks handled in a row is a
\* no-op: it writes nothing, appends no audit event and calls no sync.
C2_ReplayIsNoOp ==
  \A p \in Procs :
    (run[p].kind = "consent" /\ run[p].after = "replay")
      => /\ run[p].pc \notin {"cw_event", "cw_sync"}
         /\ run[p].pc = "done" => run[p].outcome # "processed"

\* C3: a consent webhook whose consent_updated_at is older than the stored
\* lastConsentAt leaves the stored status and timestamp as they are, and no
\* consent webhook ever lowers a stored lastConsentAt.
C3_StaleRejected ==
  [][\A p \in Procs :
       Moves(p, "cw_write")
         => \A i \in RowIds :
              /\ customers'[i].lastConsentAt >= customers[i].lastConsentAt
              /\ run[p].at < customers[i].lastConsentAt
                   => customers'[i].lastState = customers[i].lastState]_vars

\* C4: when the session has toggle events, the status orders_create derives
\* and stores is the state of the toggle recorded last.
C4_LatestToggleWins ==
  [][\A p \in Procs :
       LET s == run[p].sessionId IN
       /\ (Moves(p, "oc_load") /\ s # NULL /\ Toggles(s) # {}
           /\ events[LatestToggle(s)].state \in States)
            => run'[p].state = events[LatestToggle(s)].state
       /\ (Moves(p, "oc_upsert") /\ run'[p].pc # "done" /\ Known(run[p].subscribe))
            => customers'[run'[p].row].lastState = run[p].state]_vars

\* C5: with no toggle event, the derived and stored status is SUBSCRIBED for
\* the modes OPT_OUT and NO_CHECKBOX and NOT_SUBSCRIBED for OPT_IN.
C5_DefaultFromMode ==
  [][\A p \in Procs :
       LET s == run[p].sessionId IN
       /\ (Moves(p, "oc_load") /\ SessionExists(s) /\ Toggles(s) = {})
            => run'[p].state =
                 IF sessions[s].mode = "OPT_IN" THEN "NOT_SUBSCRIBED" ELSE "SUBSCRIBED"
       /\ (Moves(p, "oc_upsert") /\ run'[p].pc # "done" /\ Known(run[p].subscribe))
            => customers'[run'[p].row].lastState = run[p].state]_vars

\* C6: an orders_create run whose derived status equals the stored status
\* calls no synchronizer (no provider sync, no consent mutation) and arms
\* no fence.
C6_UnchangedNoCalls ==
  \A p \in Procs :
    (/\ run[p].kind = "orders" /\ Busy(p)
     /\ run[p].existing # NoRow /\ run[p].prevState = run[p].state)
      => Ops(p) \cap {"syncKlaviyo", "arm", "consentUpdate"} = {}

Suppressed(y) ==
  /\ y.pc = "returned" /\ y.subscribed = "true"
  /\ y.env.status = "suppressed"
  /\ ~y.evidence.explicitToggle /\ ~y.evidence.doiConfirmed

NoSubscribe(y) == \A i \in 1..Len(y.calls) : y.calls[i].op # "subscribe"

\* C7 as stated: subscribing a profile that is suppressed at the provider,
\* without explicit evidence, issues no subscribe call whichever lookup
\* tier answered.
C7_GuardAnyTier == Suppressed(sync) => NoSubscribe(sync)

\* C7 amended: ... issues no subscribe call when the status-aware lookup
\* answered (the lighter lookup returns no status, the profile is then
\* treated as never_subscribed and the subscribe call is made).
C7_GuardStatusAware == (Suppressed(sync) /\ sync.env.awareOk) => NoSubscribe(sync)

\* C7 witness: the guard was reached (key, list and profile present) and held
C7_Witness ==
  /\ Suppressed(sync) /\ sync.env.awareOk
  /\ sync.calls = <<Call("patchTraits", sync.email)>>

\* C8: a consent webhook that meets no fence in its window expecting its
\* state is processed in full: status and timestamp are set from the
\* webhook, the fence is cleared and an audit event is appended.
C8_GenuineProcessed ==
  [][\A p \in Procs :
       /\ (Moves(p, "cw_find") /\ ~MeetsFence(run[p])) => run'[p].pc = "cw_write"
       /\ Moves(p, "cw_write")
            => /\ run'[p].pc = "cw_event"
               /\ customers'[run'[p].row].lastState = run[p].state
               /\ customers'[run'[p].row].lastConsentAt = run[p].at
               /\ customers'[run'[p].row].until = NoTime
               /\ customers'[run'[p].row].fstate = NULL
       /\ Moves(p, "cw_event")
            => /\ Len(events') = Len(events) + 1
               /\ events'[Len(events')].state = run[p].state
               /\ events'[Len(events')].customerId = run[p].row]_vars

\* position of the first call of an operation in a run's log, 0 if none
FirstOp(p, op) ==
  LET at == {i \in 1..Len(run[p].calls) : run[p].calls[i].op = op}
  IN  IF at = {} THEN 0 ELSE CHOOSE i \in at : \A j \in at : i <= j

\* C9: every consent mutation of an orders_create run comes after a fence
\* write of the same run whose expected state is the state pushed.
C9_FenceBeforePush ==
  \A p \in Procs :
    (run[p].kind = "orders" /\ FirstOp(p, "consentUpdate") # 0)
      => /\ FirstOp(p, "arm") # 0
         /\ FirstOp(p, "arm") < FirstOp(p, "consentUpdate")
         /\ run[p].calls[FirstOp(p, "arm")].arg
              = run[p].calls[FirstOp(p, "consentUpdate")].arg

\* C10: after a consent mutation the platform accepted (first attempt or
\* retry) the fence armed for it is still armed with the pushed state for
\* the rest of the run.
C10_FenceSurvives ==
  \A p \in Procs :
    (/\ run[p].kind = "orders" /\ run[p].row # NoRow
     /\ run[p].push \in {"ok", "retry_ok"}
     /\ run[p].pc \in {"oc_clear", "oc_session", "oc_backfill", "oc_event"})
      => /\ run[p].pc # "oc_clear"
         /\ customers[run[p].row].fstate = run[p].state
         /\ customers[run[p].row].until >= now

\* --------------------------------------------------------- C11 .. C20

FailedPush(x) == x \in {"errors", "threw"}

CountIn(calls, op) == Cardinality({i \in 1..Len(calls) : calls[i].op = op})

FenceClear(row) == row.until = NoTime /\ row.fstate = NULL

\* C11: when the consent mutation of an orders_create run fails with other
\* userErrors or a thrown error, the fence is cleared before the handler
\* finishes, no further mutation is attempted, and the handler completes
\* with its acknowledgment.
C11_FailedPushClears ==
  [][\A p \in Procs :
       /\ (Moves(p, "oc_mutate") /\ FailedPush(run'[p].push))
            => run'[p].pc = IF run[p].row # NoRow THEN "oc_clear" ELSE "oc_session"
       /\ (Moves(p, "oc_clear") /\ FailedPush(run[p].push))
            => /\ FenceClear(customers'[run[p].row])
               /\ run'[p].pc = "oc_session"
       /\ (Busy(p) /\ run[p].kind = "orders" /\ FailedPush(run[p].push))
            => /\ CountIn(run'[p].calls, "consentUpdate") = 1
               /\ CountIn(run'[p].calls, "customerUpdate") = 0
               /\ CountIn(run'[p].calls, "arm") = CountIn(run[p].calls, "arm")
               /\ run[p].pc # "oc_clear" /\ run[p].row # NoRow
                    => FenceClear(customers'[run[p].row])
               /\ run'[p].pc = "done" => run'[p].outcome = "ok"]_vars

\* C11 witness: a failed push, the fence armed for it cleared, the run going on
C11_Witness ==
  \E p \in Procs :
    /\ run[p].pc = "oc_session" /\ FailedPush(run[p].push)
    /\ run[p].row # NoRow /\ FenceClear(customers[run[p].row])
    /\ "arm" \in Ops(p) /\ "clear" \in Ops(p)

IsPlatformCall(c) == c.op \in {"consentUpdate", "customerUpdate"}
PlatformOps(calls) ==
  LET q == SelectSeq(calls, IsPlatformCall) IN [i \in 1..Len(q) |-> q[i].op]

\* C12: one orders_create run issues at most two consent mutations and at
\* most one corrective customerUpdate; the second mutation comes exactly
\* once, after a duplicate-email conflict and a corrective update that
\* succeeded, never after another error or a timeout.
C12_BoundedRetry ==
  [][\A p \in Procs :
       /\ run'[p].kind = "orders"
            => PlatformOps(run'[p].calls) \in
                 {<<>>, <<"consentUpdate">>, <<"consentUpdate", "customerUpdate">>,
                  <<"consentUpdate", "customerUpdate", "consentUpdate">>}
       /\ (Moves(p, "oc_mutate") /\ run'[p].push # "unique_email")
            => run'[p].pc \notin {"oc_mutate", "oc_custupdate", "oc_retry"}
       /\ Moves(p, "oc_custupdate")
            => run'[p].pc = IF run'[p].push = "unique_email" THEN "oc_retry"
                            ELSE IF run[p].row # NoRow THEN "oc_clear"
                            ELSE "oc_session"
       /\ Moves(p, "oc_retry")
            => run'[p].pc \notin {"oc_mutate", "oc_custupdate", "oc_retry"}]_vars

\* C12 witness: conflict, corrective update, the one retry
C12_Witness ==
  \E p \in Procs :
    /\ run[p].kind = "orders" /\ run[p].push = "retry_errors"
    /\ PlatformOps(run[p].calls) = <<"consentUpdate", "customerUpdate", "consentUpdate">>

\* the steps of the platform push of an orders_create run
PushStep(p) ==
  \/ Moves(p, "oc_arm") \/ Moves(p, "oc_mutate") \/ Moves(p, "oc_custupdate")
  \/ Moves(p, "oc_retry") \/ Moves(p, "oc_clear")

\* C13: in orders_create a failed email-provider sync does not keep the
\* consent mutation from being attempted, a failed consent mutation is
\* followed by no further email-provider call, and neither changes the
\* status and timestamp written to the customer record.
C13_Independence ==
  [][\A p \in Procs :
       /\ Moves(p, "oc_sync")
            => /\ customers' = customers
               /\ run[p].sid # NULL => run'[p].pc = "oc_arm"
       /\ PushStep(p)
            => /\ CountIn(run'[p].calls, "syncKlaviyo")
                    = CountIn(run[p].calls, "syncKlaviyo")
               /\ Len(customers') = Len(customers)
               /\ \A i \in RowIds :
                    /\ customers'[i].lastState = customers[i].lastState
                    /\ customers'[i].lastConsentAt = customers[i].lastConsentAt
       /\ (Moves(p, "oc_mutate") /\ run[p].row # NoRow)
            => /\ "consentUpdate" \in {run'[p].calls[i].op : i \in 1..Len(run'[p].calls)}
               /\ customers[run[p].row].lastState = run[p].state
               /\ customers[run[p].row].lastConsentAt = now]_vars

\* C13 witness: the sync threw, the mutation was attempted and failed, the
\* record keeps the status written
C13_Witness ==
  \E p \in Procs :
    /\ run[p].pc = "oc_session" /\ run[p].synced = "threw"
    /\ FailedPush(run[p].push) /\ run[p].row # NoRow
    /\ customers[run[p].row].lastState = run[p].state

\* C14: every orders_create run and every consent-webhook run that is not
\* suppressed ends with one audit event appended that carries the resolved
\* status.
C14_AuditAlways ==
  \A p \in Procs :
    (/\ run[p].pc = "done"
     /\ \/ run[p].kind = "orders"
        \/ run[p].kind = "consent" /\ run[p].outcome # "suppressed")
      => /\ CountIn(run[p].calls, "event") = 1
         /\ \A i \in 1..Len(run[p].calls) :
              run[p].calls[i].op = "event" => run[p].calls[i].arg = run[p].state

\* C15: every delivery a webhook handler takes ends with the handler's
\* acknowledgment: no key conflict or other store error reaches the caller.
C15_FixedAck ==
  \A p \in Procs :
    run[p].pc = "done" => run[p].outcome \in {"ok", "processed", "suppressed"}

\* a step that appends a checkout-toggle event
ToggleStep ==
  /\ Len(events') = Len(events) + 1
  /\ events'[Len(events')].type = "shopify_checkout_toggle"

\* C16: handling a checkout toggle appends an event for the session and
\* nothing else: no customer record is created or modified (status,
\* lastConsentAt and fence as before) and no synchronizer is called.
C16_ToggleProvisional ==
  [][ToggleStep
       => /\ SubSeq(events', 1, Len(events)) = events
          /\ SessionExists(events'[Len(events')].sessionId)
          /\ events'[Len(events')].customerId = NoRow
          /\ customers' = customers
          /\ run' = run
          /\ sync' = sync]_vars

\* C16 witness: a toggle recorded when the customer's record was there
C16_Witness ==
  \E i, j \in 1..Len(events) :
    /\ i < j
    /\ events[i].type = "shopify_subscription_update"
    /\ events[j].type = "shopify_checkout_toggle"
    /\ Len(customers) > 0

\* what a customers_update run leaves alone on the records that were there
ProfileFrame(p) ==
  /\ \A i \in RowIds :
       /\ customers'[i].lastState = customers[i].lastState
       /\ customers'[i].lastConsentAt = customers[i].lastConsentAt
       /\ customers'[i].until = customers[i].until
       /\ customers'[i].fstate = customers[i].fstate
  /\ run'[p].calls = <<>>
  /\ RowsBySid(run[p].sid) # {} => Len(customers') = Len(customers)

ValidRaw == {"subscribed", "unsubscribed", "not_subscribed"}

\* C17 as stated: customers_update writes a status only when it creates the
\* record, and then the payload's consent state if present, else
\* NOT_SUBSCRIBED; an existing record keeps status, lastConsentAt and fence,
\* and no synchronizer is called.
C17_SeedStateOrNotSubscribed ==
  [][\A p \in Procs :
       Moves(p, "cu_upsert")
         => /\ ProfileFrame(p)
            /\ Len(customers') > Len(customers)
                 => customers'[Len(customers')].lastState =
                      IF run[p].raw \in ValidRaw THEN toState(run[p].raw)
                      ELSE "NOT_SUBSCRIBED"]_vars

\* C17 amended: ... and then the status is email_marketing_consent.state
\* if it is one of the three states, else SUBSCRIBED / NOT_SUBSCRIBED from a
\* boolean accepts_marketing, else NOT_SUBSCRIBED.
C17_SeedWithFallback ==
  [][\A p \in Procs :
       Moves(p, "cu_upsert")
         => /\ ProfileFrame(p)
            /\ Len(customers') > Len(customers)
                 => customers'[Len(customers')].lastState =
                      IF run[p].raw \in ValidRaw THEN toState(run[p].raw)
                      ELSE IF run[p].accepts = "true" THEN "SUBSCRIBED"
                      ELSE "NOT_SUBSCRIBED"]_vars

\* C17 witness: a record seeded from accepts_marketing
C17_Witness ==
  \E p \in Procs :
    /\ run[p].pc = "cu_event" /\ run[p].existing = NoRow
    /\ run[p].raw \notin ValidRaw /\ run[p].accepts = "true"
    /\ customers[run[p].row].lastState = "SUBSCRIBED"

\* C18: of two orders_create runs for the same customer that derive the
\* same status, at most one calls the email-provider sync.
C18_OneSyncs ==
  \A p, q \in Procs :
    (/\ p # q
     /\ run[p].kind = "orders" /\ run[q].kind = "orders"
     /\ run[p].email = run[q].email /\ run[p].state = run[q].state)
      => ~("syncKlaviyo" \in Ops(p) /\ "syncKlaviyo" \in Ops(q))

\* C19: no handler ends on a key conflict, and after a signal that carries
\* a platform customer id and an email was processed, the lookup by id and
\* the lookup by email give the same single record.
C19_IdentityReconciled ==
  \A p \in Procs :
    run[p].pc = "done"
      => /\ run[p].outcome # "key_conflict"
         /\ (run[p].sid # NULL /\ run[p].email # NULL
             /\ run[p].outcome \in {"ok", "processed"})
              => /\ RowsBySid(run[p].sid) = RowsByEmail(run[p].email)
                 /\ Cardinality(RowsBySid(run[p].sid)) = 1

\* C20: every customer record's status is one of SUBSCRIBED, UNSUBSCRIBED,
\* NOT_SUBSCRIBED.
C20_TriState == \A i \in RowIds : customers[i].lastState \in States

\* --------------------------------------------------------- C21 .. C30

\* C21: a bulk-sync record older than the stored lastConsentAt leaves the
\* stored status and timestamp as they are; a newer one sets the status to
\* the platform's state, null or unknown read as NOT_SUBSCRIBED.
C21_BulkLastWriteWins ==
  [][\A p \in Procs :
       Moves(p, "bs_write")
         => \A i \in RowIds :
              /\ run[p].at < customers[i].lastConsentAt
                   => /\ customers'[i].lastState = customers[i].lastState
                      /\ customers'[i].lastConsentAt = customers[i].lastConsentAt
              /\ (/\ i = run[p].existing /\ run'[p].pc = "bs_event"
                  /\ run[p].at > customers[i].lastConsentAt)
                   => /\ customers'[i].lastState =
                           IF run[p].raw \in States THEN run[p].raw
                           ELSE "NOT_SUBSCRIBED"
                      /\ customers'[i].lastConsentAt = run[p].at]_vars

\* C22: a consent-webhook or orders_create run whose signal carries no email
\* calls no synchronizer (no email-provider sync, no consent mutation) and
\* still ends with its audit event appended.
C22_NoEmailNoSync ==
  \A p \in Procs :
    (run[p].kind \in {"orders", "consent"} /\ run[p].email = NULL)
      => /\ Ops(p) \cap {"syncKlaviyo", "consentUpdate", "customerUpdate"} = {}
         /\ (run[p].pc = "done" /\ run[p].outcome # "suppressed")
              => CountIn(run[p].calls, "event") = 1

AlreadySubscribed(y) ==
  y.pc = "returned" /\ y.subscribed = "true" /\ y.env.status = "subscribed"

NoListCall(y) ==
  \A i \in 1..Len(y.calls) : y.calls[i].op \notin {"subscribe", "unsubscribe"}

\* C24 as stated: a sync targeting subscribed=true for a profile whose
\* provider status is 'subscribed' issues no subscribe and no unsubscribe
\* call.
C24_NoOpAnyTier == AlreadySubscribed(sync) => NoListCall(sync)

\* C24 amended: ... issues no subscribe and no unsubscribe call when the
\* status-aware lookup answered (after the lighter lookup the status is
\* unknown and the subscribe call is made again).
C24_NoOpStatusAware ==
  (AlreadySubscribed(sync) /\ sync.env.awareOk) => NoListCall(sync)

\* C24 witness: the no-op was taken with key, list and profile at hand
C24_Witness ==
  /\ AlreadySubscribed(sync) /\ sync.env.awareOk
  /\ sync.calls = <<Call("patchTraits", sync.email)>>

IsUnsubscribe(c) == c.op = "unsubscribe"
IsSubscribe(c) == c.op = "subscribe"
ArgsOf(q) == {q[i].arg : i \in 1..Len(q)}

Configured(st) == {st.single, st.double} \ {NULL}

\* one unsubscribe per distinct configured list, and the call did not throw
UnsubscribedAll(y, st) ==
  LET q == SelectSeq(y.calls, IsUnsubscribe)
  IN  /\ ArgsOf(q) = Configured(st)
      /\ Len(q) = Cardinality(Configured(st))
      /\ ~y.threw

UnsubscribeCall(y, st) ==
  /\ y.pc = "returned" /\ y.subscribed = "false"
  /\ y.email # NULL /\ st.hasKey

ProfileAtHand(env) ==
  (env.awareOk \/ env.liteOk) /\ (env.status # "absent" \/ env.createOk)

PreferredList(method, st) ==
  IF method = "DOI"
    THEN IF st.double # NULL THEN st.double ELSE st.single
    ELSE IF st.single # NULL THEN st.single ELSE st.double

\* C26: a subscribe goes to the double-opt-in list for DOI and to the
\* single-opt-in list for SOI when that list is configured, to the other
\* configured list when it is not, and with no list configured no subscribe
\* call is made.
C26_ListSelection ==
  (sync.pc = "returned" /\ sync.subscribed = "true")
    => LET q == SelectSeq(sync.calls, IsSubscribe)
           want == PreferredList(sync.env.method, settings)
       IN  /\ Configured(settings) = {} => q = <<>>
           /\ sync.env.method \in {"DOI", "SOI"}
                => /\ ArgsOf(q) \subseteq {want} \ {NULL}
                   /\ (/\ sync.email # NULL /\ settings.hasKey
                       /\ Configured(settings) # {}
                       /\ sync.env.awareOk
                       /\ sync.env.status \in {"never_subscribed", "unsubscribed"})
                        => q = <<Call("subscribe", want)>>

\* C26 witness: DOI resolved, no double-opt-in list, the single one is used
C26_Witness ==
  /\ sync.pc = "returned" /\ sync.subscribed = "true"
  /\ sync.env.method = "DOI"
  /\ settings.double = NULL /\ settings.single = "L1"
  /\ SelectSeq(sync.calls, IsSubscribe) = <<Call("subscribe", "L1")>>


\* the segment a resolution looked up: the resolved one, or the caller's
UsedType ==
  IF policy.customerType = "resolved" THEN policy.segment.type
  ELSE policy.customerType

NoCountSignal ==
  /\ policy.count = NoCount
  /\ (~policy.hasId \/ policy.answer.threw \/ policy.answer.n = NoCount)

RulesAt(rows) == {RuleOf(policy.table[i]) : i \in rows}

CodeRows(ct) ==
  {i \in 1..Len(policy.table) :
     /\ policy.code # NULL
     /\ CodeKey(policy.table[i]) = <<Upper(policy.code), ct>>}
NameRows(ct) ==
  {i \in 1..Len(policy.table) :
     /\ policy.country # NULL
     /\ NameKey(policy.table[i]) = <<Lower(policy.country), ct>>}
GbRows(ct) ==
  {i \in 1..Len(policy.table) : CodeKey(policy.table[i]) = <<"GB", ct>>}

\* C27 as stated: pickRule returns a row matching (region code, segment) if
\* one exists, else a row matching (region name, segment), else the fixed
\* default rule (GB, OPT_OUT, single opt-in).
C27_LookupOrder ==
  policy.pc = "returned" =>
    LET ct == TypeKey(UsedType)
    IN  IF CodeRows(ct) # {} THEN policy.rule \in RulesAt(CodeRows(ct))
        ELSE IF NameRows(ct) # {} THEN policy.rule \in RulesAt(NameRows(ct))
        ELSE policy.rule = DefaultRule

\* C27 amended: between the name match and the fixed default, pickRule
\* answers with the table's GB row for the segment, else the table's GB row
\* for "single"; it returns a rule for every input.
C27_LookupOrderStepped ==
  policy.pc = "returned" =>
    LET ct == TypeKey(UsedType)
    IN  /\ policy.rule # NoRule
        /\ IF CodeRows(ct) # {} THEN policy.rule \in RulesAt(CodeRows(ct))
           ELSE IF NameRows(ct) # {} THEN policy.rule \in RulesAt(NameRows(ct))
           ELSE IF GbRows(ct) # {} THEN policy.rule \in RulesAt(GbRows(ct))
           ELSE IF GbRows("single") # {} THEN policy.rule \in RulesAt(GbRows("single"))
           ELSE policy.rule = DefaultRule

C27_Witness ==
  /\ policy.pc = "returned"
  /\ policy.code = "FR" /\ policy.country = NULL
  /\ UsedType = "repeat"
  /\ GbRows("repeat") = {} /\ GbRows("single") # {}
  /\ policy.rule \in RulesAt(GbRows("single"))
  /\ policy.rule # DefaultRule

\* rows of the looked-up region that name the looked-up segment, and rows of
\* that region that name no segment
SpecificRows ==
  {i \in 1..Len(policy.table) :
     /\ policy.code # NULL
     /\ Upper(policy.table[i].country_code) = Upper(policy.code)
     /\ policy.table[i].customer_type # NULL
     /\ policy.table[i].customer_type = UsedType}
WildcardRows ==
  {i \in 1..Len(policy.table) :
     /\ policy.code # NULL
     /\ Upper(policy.table[i].country_code) = Upper(policy.code)
     /\ policy.table[i].customer_type = NULL}

\* C28: a table row with no segment matches a lookup for its region with any
\* segment (first-time, repeat or unknown), and when a segment-specific row
\* and a no-segment row both exist for the region the segment-specific row is
\* the one returned, by pickRule and by chooseRow.
C28_WildcardRows ==
  (policy.pc = "returned" /\ policy.customerType = "resolved") =>
    /\ SpecificRows # {} =>
         /\ policy.rule \in RulesAt(SpecificRows)
         /\ policy.row \in SpecificRows
    /\ (SpecificRows = {} /\ WildcardRows # {}) =>
         /\ policy.rule \in RulesAt(WildcardRows)
         /\ policy.row \in WildcardRows


\* a policy request with a checkout token answered in this step
LoaderStep(p) ==
  /\ runs' = runs + 1
  /\ run'[p].pc = "done" /\ run'[p].kind = "privacy"
  /\ run'[p].token # NULL

\* C29: at most one session exists per checkout token; the first policy
\* request with a token mints a session, and every later request with that
\* token answers with the same session id, leaves its creation time alone
\* and stores the mode it answers with; no other session is touched.
C29_OneSessionPerToken ==
  [][/\ \A a, b \in DOMAIN sessions' :
          (/\ sessions'[a].mode # NULL /\ sessions'[b].mode # NULL
           /\ sessions'[a].checkoutToken # NULL
           /\ sessions'[a].checkoutToken = sessions'[b].checkoutToken) => a = b
     /\ \A p \in Procs : LoaderStep(p) =>
          LET t == run'[p].token
              s == run'[p].sessionId
              before == SessionsWithToken(sessions, t)
          IN  /\ SessionsWithToken(sessions', t) = {s}
              /\ sessions'[s].mode = run'[p].mode
              /\ sessions'[s].updatedAt = now
              /\ IF before = {}
                   THEN sessions[s].mode = NULL /\ sessions'[s].createdAt = now
                   ELSE before = {s} /\ sessions'[s].createdAt = sessions[s].createdAt
              /\ \A o \in DOMAIN sessions \ {s} : sessions'[o] = sessions[o]]_vars

C29_Witness ==
  \E s \in DOMAIN sessions :
    /\ run["p1"].pc = "done" /\ run["p1"].kind = "privacy"
    /\ run["p1"].token = "t1" /\ run["p1"].sessionId = s
    /\ sessions[s].checkoutToken = "t1"
    /\ sessions[s].createdAt < sessions[s].updatedAt
    /\ sessions[s].updatedAt = run["p1"].ts
    /\ sessions[s].mode = "OPT_IN" /\ run["p1"].email = "a@x"
    /\ pickRule(policy.table, "GB", NULL, "undefined").widget = "OPT_OUT"
    /\ \E o \in DOMAIN sessions : o # s /\ sessions[o].checkoutToken = "t2"

\* the toggle posted in this step repeats the one answered just before it:
\* same session, type, state and time
ReplayStep(p) ==
  /\ runs' = runs + 1
  /\ run[p].pc = "done" /\ run[p].kind = "toggle"
  /\ run'[p].pc = "done" /\ run'[p].kind = "toggle"
  /\ run'[p].raw # NULL /\ SessionExists(run'[p].sessionId)
  /\ run'[p].sessionId = run[p].sessionId
  /\ run'[p].raw = run[p].raw
  /\ run'[p].state = run[p].state
  /\ run'[p].ts = run[p].ts

\* C30: posting the same toggle event (same session id, type and timestamp)
\* to api.consent.event a second time succeeds like the first and leaves the
\* session's toggle events as they were after the first post.
C30_ToggleIdempotent ==
  [][\A p \in Procs : ReplayStep(p) =>
       /\ run[p].outcome = "ok" /\ run'[p].outcome = "ok"
       /\ events' = events]_vars


\* ------------------------------------------------------------- C31 .. C40

\* a bulk-sync row being handled under --dry-run
DryRow(p) ==
  run[p].kind = "bulk" /\ run[p].pc \notin {"idle", "done"} /\ run[p].dryRun = TRUE

\* C40: with --dry-run the bulk sync writes no customer record and no audit
\* event and issues no email-provider call for any customer row, also when
\* --push-klaviyo is given.
C40_DryRunNoEffects ==
  [][\A p \in Procs : DryRow(p) =>
       /\ customers' = customers
       /\ events' = events
       /\ \A i \in 1..Len(run'[p].calls) : run'[p].calls[i].op # "syncKlaviyo"]_vars


\* an orders_create run in flight that has no session evidence: the order
\* names no consent session, or the decision came out undefined
NoEvidenceRun(p) ==
  /\ run[p].kind = "orders" /\ run[p].pc \notin {"idle", "done"}
  /\ (run[p].sessionId = NULL \/ run[p].subscribe = "undefined")

\* C34: an orders_create signal with no consent session id, or whose session
\* yields no subscribe outcome, leaves every existing customer's stored
\* status, lastConsentAt and fence unchanged and makes no email-provider sync
\* and no commerce-platform consent mutation.
C34_NoEvidenceNoGuess ==
  [][\A p \in Procs : NoEvidenceRun(p) =>
       /\ \A i \in RowIds :
            /\ customers'[i].lastState = customers[i].lastState
            /\ customers'[i].lastConsentAt = customers[i].lastConsentAt
            /\ customers'[i].until = customers[i].until
            /\ customers'[i].fstate = customers[i].fstate
       /\ \A i \in 1..Len(run'[p].calls) :
            run'[p].calls[i].op \notin {"syncKlaviyo", "consentUpdate", "customerUpdate",
                                        "arm", "clear"}]_vars

C34_Witness ==
  /\ run["p1"].pc = "done" /\ run["p1"].kind = "orders"
  /\ run["p1"].outcome = "ok"
  /\ run["p1"].sessionId = NULL /\ run["p1"].email = "a@x" /\ run["p1"].sid = "101"
  /\ \E i \in RowIds :
       /\ customers[i].email = "a@x"
       /\ customers[i].lastState = "UNSUBSCRIBED"
       /\ customers[i].fstate = "UNSUBSCRIBED"


\* a consent webhook that was handled: discarded as an echo, or processed
Handled(p) ==
  /\ run[p].pc = "done" /\ run[p].kind = "consent"
  /\ run[p].outcome \in {"suppressed", "processed"}

\* C37: a fence is consumed at most once: the webhook it suppresses clears
\* it, and a processed consent webhook for an existing customer clears it
\* too, so after a consent webhook is handled the fence of the customer it
\* addresses is unarmed (and a webhook is suppressed only by an armed fence).
C37_FenceConsumed ==
  [][\A p \in Procs :
       /\ Handled(p)' =>
            \A i \in Addressed(run[p])' :
              customers'[i].until = NoTime /\ customers'[i].fstate = NULL
       /\ (run[p].pc = "cw_find" /\ run'[p].pc = "cw_clear") =>
            /\ customers[run'[p].existing].until # NoTime
            /\ customers[run'[p].existing].fstate = run[p].state]_vars

C37_Witness ==
  /\ run["p1"].pc = "done" /\ run["p1"].kind = "consent"
  /\ run["p1"].outcome = "suppressed"
  /\ \E i \in Addressed(run["p1"]) :
       /\ customers[i].until = NoTime
       /\ customers[i].lastState = run["p1"].state


\* C35: whenever the consent webhook handler discards a webhook as an echo,
\* the stored status of the customer it found equals, at that moment, the
\* state the webhook reports.
C35_SuppressedAgrees ==
  [][\A p \in Procs :
       (run[p].pc = "cw_find" /\ run'[p].pc = "cw_clear") =>
         customers[run'[p].existing].lastState = run[p].state]_vars


\* nothing is in flight: no handler is running and no webhook is undelivered
Quiet == InFlight = 0 /\ shopify.webhooks = <<>>

\* C36: if every commerce-platform push succeeds and each platform consent
\* webhook is delivered exactly once and in order, then once no signal is in
\* flight the customer's stored status equals the consent state held by the
\* commerce platform (for a record that holds a status).
C36_Converges ==
  (shopify.state # NULL /\ ~shopify.failed /\ Quiet) =>
    \A i \in RowsBySid("101") :
      customers[i].lastState # NULL => customers[i].lastState = shopify.state

\* C31: once orders_create has set a session's order id, no later operation
\* changes the session's presentation mode, order id or resolved subscribe
\* value
C31_SessionFrozen ==
  [][\A s \in DOMAIN sessions :
       sessions[s].orderId # NULL =>
         /\ sessions'[s].mode = sessions[s].mode
         /\ sessions'[s].orderId = sessions[s].orderId
         /\ sessions'[s].subscribed = sessions[s].subscribed]_vars

Fallback(w) == ShownMode(w) = "NO_CHECKBOX" /\ w.attr = NULL

\* C32: when the policy request fails, a widget in its fallback presentation
\* stays in it (NO_CHECKBOX) and writes no consent session attribute onto the
\* checkout
C32_WidgetDegrades ==
  [][(Fallback(widget) /\ widget'.status = "failed") => Fallback(widget')]_vars

\* the request reached the server, which stored a session, and the answer was
\* lost: the widget is in its fallback and the order has gone through
C32_Witness ==
  /\ widget.status = "failed"
  /\ Fallback(widget)
  /\ \E s \in DOMAIN sessions : sessions[s].checkoutToken = widget.token
  /\ \E p \in Procs : run[p].kind = "orders" /\ run[p].pc = "done"

\* C38: the status derived at checkout completion equals what the box as
\* displayed means under the mode stored for the session, also when a policy
\* refresh changed the mode after the customer toggled (the widget shows the
\* mode stored)
C38_DerivedMatchesBox ==
  [][\A p \in Procs :
       (/\ run[p].pc = "oc_load" /\ run'[p].pc # "oc_load"
        /\ widget.attr # NULL /\ run[p].sessionId = widget.attr
        /\ SessionExists(widget.attr) /\ Toggles(widget.attr) # {}
        /\ ShownMode(widget) = sessions[widget.attr].mode)
       => run'[p].state = ToggleState(sessions[widget.attr].mode, widget.checked)]_vars

UnsubscribedEmail(email) ==
  \E i \in 1..Len(customers) :
    customers[i].email = email /\ customers[i].lastState = "UNSUBSCRIBED"

Answered(p) ==
  runs' = runs + 1 /\ run'[p].kind = "privacy" /\ run'[p].pc = "done"

DefaultOrder(p) ==
  /\ run[p].kind = "orders" /\ run[p].pc \notin {"idle", "done", "oc_load"}
  /\ run[p].mode = "OPT_IN" /\ run[p].sessionId # NULL
  /\ Toggles(run[p].sessionId) = {}

Pruning(s) ==
  {p \in Procs : run[p].kind = "prune" /\ run[p].pc = "pr_delete" /\ s \in run[p].del}

\* C33: the prune job deletes a session, with all of its events, only if the
\* session was created before the cutoff and has no shopify_checkout event at
\* the moment of deletion, also next to a concurrent orders_create; a dry run
\* deletes nothing
C33_PruneSafe ==
  [][\A s \in DOMAIN sessions :
       (SessionExists(s) /\ sessions'[s].mode = NULL) =>
         /\ Pruning(s) # {}
         /\ \A p \in Pruning(s) :
              run[p].dryRun = FALSE /\ sessions[s].createdAt < run[p].ts
         /\ Checkouts(s) = {}
         /\ \A i \in 1..Len(events') : events'[i].sessionId # s]_vars

====
